---- MODULE Spec2Model ----
(***************************************************************************)
(* Pan/tilt face tracker of desktop-sitter: core/servo.py (PanTilt),       *)
(* core/camera.py (Camera), core/tracker.py (FaceTracker), and core/main.py *)
(* (the application that runs FaceTracker.run in a thread of its own, and   *)
(* its frame callback on_frame), and core/emotion_worker.py                *)
(* (EmotionWorker, a thread between two queues), and core/detector.py      *)
(* (find_faces, the filter behind every detection).                        *)
(*                                                                         *)
(* Angles are Python floats in the source.  Here they are fixed-point      *)
(* integers, 10000 units per degree; pixel quantities are integers (the    *)
(* rescaled rectangles are int() values, and a rescaled width is even, so  *)
(* the face centre x + w/2 is integral).  Clock readings (time.time()) are *)
(* whole seconds.                                                          *)
(***************************************************************************)
EXTENDS Integers, Sequences, FiniteSets, TLC

VARIABLES
    prog,            \* which program runs: servo (servo.py's main), tracker (tracker.py's main), app (main.py)
    show_window,     \* FaceTracker.show_window
    pc,              \* where the program is: servo / released (PanTilt used on its own), built (main.py before start()), new / loop / returned / raised (FaceTracker.run)
    step,            \* PanTilt._step
    current_pan,     \* PanTilt._current_pan
    current_tilt,    \* PanTilt._current_tilt
    pca_active,      \* PCA9685 driver not yet deinit()-ed
    cam_open,        \* Camera.cap is opened
    dead_x,          \* FaceTracker.dead_x
    dead_y,          \* FaceTracker.dead_y
    mode,            \* FaceTracker.mode
    last_face_time,  \* FaceTracker.last_face_time
    frame_no,        \* FaceTracker._frame_no
    now,             \* last reading of time.time()
    scene,           \* history: what the detector returned at each waypoint of the last grid scan
    ev,              \* history: what the last step did (operation, frames read, actuator calls, inputs)
    clock,           \* main.py: last reading of time.time() by on_frame
    detections,      \* main.py: on_frame.detections
    last_api_time,   \* main.py: on_frame.last_api_time
    has_result,      \* main.py: hasattr(on_frame, 'last_result')
    last_post,       \* history: the clock reading of the call that last posted to the API (-1: none yet)
    call,            \* history: what the last call of on_frame did
    wclock,          \* emotion_worker.py: last reading of time.time() by EmotionWorker.run
    q_in,            \* EmotionWorker.q_in
    q_out,           \* EmotionWorker.q_out
    last_call,       \* EmotionWorker._last_call
    job,             \* the request run() holds between lines 103 and 113 (0: it waits in q_in.get)
    submitted,       \* history: requests put on q_in so far
    taken,           \* history: requests dequeued and not dropped so far
    puts,            \* history: tuples put on q_out so far
    starts,          \* history: <<the analysis start before the last, the last>> (-1: none)
    wev,             \* history: what the last step around the worker did
    cands,           \* detector.py: what detectMultiScale returned for the frame in hand
    faces,           \* tracker.py: faces, the list find_faces returned (line 141)
    face0,           \* tracker.py: faces[0] of line 144, the rectangle run() acts on (None: no face)
    dpc,             \* where the detection of the frame is: input / done
    duty_angle,      \* servo.py: the angle passed to angle_to_duty, in hundredths of a degree
    duty,            \* servo.py: what angle_to_duty returned for it (-1: not yet called)
    ss_emotion,      \* emotion_master.py: SharedState.emotion
    ss_response,     \* SharedState.response
    ss_changed,      \* SharedState.changed, the flag of the threading.Event
    ss_lock,         \* SharedState.lock: the thread that holds it ("-": free)
    set_pc,          \* where each thread that calls set() is: idle / acquire / test / assign / signal / release
    set_args,        \* the (emotion, response) each such thread passed to set()
    set_calls,       \* history: calls of set() made so far
    listen_pc,       \* where listen_for_emotion is in its loop: index into listener_order
    seen,            \* the pair the listener's last get() returned (the initial pair before its first)
    main_pc,         \* main.py, the main thread: mainloop (display.start()) / finally (line 165) / closed (after loop.close()) / exited
    pump_armed,      \* integrate_asyncio_tkinter is scheduled with display.after
    loop_closed,     \* the asyncio loop of line 76 is closed
    scheduled,       \* an on_frame coroutine handed over by run_coroutine_threadsafe waits for the loop to run
    future,          \* the future of the invocation in hand: none / pending / result / exception
    wrap_pc,         \* the tracker thread: idle (outside on_frame_wrapper) / waiting (in future.result()) / dead (ended with the process)
    wrap_calls,      \* history: invocations of on_frame_wrapper so far
    wrap_ret         \* history: how the last invocation that ended did so: returned / logged ("-": none yet)

\* the state of on_frame
on_frame_vars == << clock, detections, last_api_time, has_result, last_post, call >>

\* the state outside the tracker, which no step of the tracker touches
\* the state of the EmotionWorker
worker_vars == << wclock, q_in, q_out, last_call, job, submitted, taken, puts, starts, wev >>

\* one detection: find_faces and the use run() makes of its result
detector_vars == << cands, faces, face0, dpc >>

\* one call of angle_to_duty
duty_vars == << duty_angle, duty >>

\* the state of the components added last
\* SharedState, the threads that call set() and the listener
shared_vars ==
    << ss_emotion, ss_response, ss_changed, ss_lock, set_pc, set_args, set_calls, listen_pc, seen >>

\* on_frame_wrapper between the tracker thread and the main thread's event loop
bridge_vars ==
    << main_pc, pump_armed, loop_closed, scheduled, future, wrap_pc, wrap_calls, wrap_ret >>

more_vars == << duty_vars, shared_vars, bridge_vars >>

others == << on_frame_vars, worker_vars, detector_vars, more_vars >>

vars ==
    << others, prog, show_window, pc, step, current_pan, current_tilt, pca_active, cam_open,
       dead_x, dead_y, mode, last_face_time, frame_no, now, scene, ev >>

(***************************************************************************)
(* Bounds of the model.                                                    *)
(***************************************************************************)
MaxFrames == 2

MaxTime == 31

\* on_frame: the first and the last clock reading, the longest detection list
FirstClock == 30

MaxClock == 61

MaxDetections == 5

\* EmotionWorker: the requests submitted in a run
MaxRequests == 6

\* find_faces: the rectangles detectMultiScale returns for one frame
MaxCands == 3

\* degrees below 0 and above 180 that angle_to_duty is called with
MaxOvershoot == 10

\* calls of SharedState.set()
MaxSets == 3

\* invocations of on_frame_wrapper
MaxCalls == 4

(***************************************************************************)
(* Arithmetic helpers.                                                     *)
(***************************************************************************)
Deg(n) == n * 10000

max(a, b) == IF a >= b THEN a ELSE b

min(a, b) == IF a <= b THEN a ELSE b

abs(a) == IF a >= 0 THEN a ELSE -a

\* pct/100 * v, rounded toward zero
Frac(pct, v) == IF v >= 0 THEN (pct * v) \div 100 ELSE -((pct * (-v)) \div 100)

None == << >>

(***************************************************************************)
(* servo.py: PanTilt                                                       *)
(***************************************************************************)
pan_min == Deg(30)

pan_max == Deg(150)

tilt_min == Deg(70)

tilt_max == Deg(150)

\* PanTilt(step=1.0) in FaceTracker.__init__, PanTilt(step=10) in servo.py's own main
tracker_step == Deg(1)

servo_step == Deg(10)

centre_pan == (pan_min + pan_max) \div 2

centre_tilt == (tilt_min + tilt_max) \div 2

pan_left(p) == max(pan_min, p - step)

pan_right(p) == min(pan_max, p + step)

tilt_up(t) == min(tilt_max, t + step)

tilt_down(t) == max(tilt_min, t - step)

\* mutation of set_pan: the angle is stored as given
set_pan_unclamped(angle) == angle

set_pan(angle) == max(pan_min, min(pan_max, angle))

\* mutation of set_tilt: the pan bounds are used
set_tilt_pan_bounds(angle) == max(pan_min, min(pan_max, angle))

set_tilt(angle) == max(tilt_min, min(tilt_max, angle))

(***************************************************************************)
(* tracker.py: knobs                                                       *)
(***************************************************************************)
\* THETA_H, THETA_V: 40.9157 and 31.2616 degrees
THETA_H == 409157

THETA_V == 312616

frame_w == 320

frame_h == 240

deg_px_x == THETA_H \div frame_w

deg_px_y == THETA_V \div frame_h

\* SCALE = 0.5 = ScaleNum / ScaleDen
ScaleNum == 1

ScaleDen == 2

\* ALPHA_PAN = 0.35, ALPHA_TILT = 0.25, as percentages
ALPHA_PAN == 35

ALPHA_TILT == 25

MAX_PAN_DELTA == Deg(1)

MAX_TILT_DELTA == Deg(1) \div 2

\* 1e-2 degree
MOVED_EPS == Deg(1) \div 100

INIT_PAN_STEP == 15

INIT_TILT_STEP == 10

TIMEOUT_NO_FACE == 30

default_dead == 40

\* int(v / SCALE)
Rescale(v) == (v * ScaleDen) \div ScaleNum

(***************************************************************************)
(* Inputs the environment supplies.                                        *)
(***************************************************************************)
\* seconds between two successive readings of time.time()
Delays == {0, TIMEOUT_NO_FACE, TIMEOUT_NO_FACE + 1}

\* faces[0] of find_faces on the 160x120 image, as <<x, y, w, h>>, during a grid scan
\* (two of equal area and different shape, one larger)
ScanFaces == { <<58, 37, 45, 48>>, <<56, 37, 48, 45>>, <<55, 34, 50, 52>> }

\* faces[0] during the control loop: centred, just off centre, far right,
\* slightly right and far down, far left and up, 80 px right
LoopFaces ==
    { <<58, 38, 44, 44>>, <<60, 40, 44, 44>>, <<100, 38, 44, 44>>,
      <<63, 70, 44, 44>>, <<10, 5, 44, 44>>, <<98, 38, 44, 44>> }

\* arguments the owner passes to set_pan / set_tilt before run()
ClientAngles == { Deg(20), Deg(100), Deg(160) }

(***************************************************************************)
(* tracker.py: FaceTracker._centre                                         *)
(***************************************************************************)
\* mutation of centre_cmds: the smoothed angles are written without the slew clamp
centre_cmds_no_slew(p, t, cx, cy, ddx, ddy) ==
    LET dx == cx - frame_w \div 2
        dy == cy - frame_h \div 2
        sp == p + Frac(ALPHA_PAN, (p - dx * deg_px_x) - p)
        st == t + Frac(ALPHA_TILT, (t - dy * deg_px_y) - t)
    IN  IF abs(dx) < ddx /\ abs(dy) < ddy
        THEN << >>
        ELSE << <<"set_pan", sp>>, <<"set_tilt", st>> >>

\* mutation of centre_cmds: the pan goal is taken on the wrong side
centre_cmds_pan_reversed(p, t, cx, cy, ddx, ddy) ==
    LET dx == cx - frame_w \div 2
        dy == cy - frame_h \div 2
        sp == p + Frac(ALPHA_PAN, (p + dx * deg_px_x) - p)
        st == t + Frac(ALPHA_TILT, (t - dy * deg_px_y) - t)
        tp == max(p - MAX_PAN_DELTA, min(p + MAX_PAN_DELTA, sp))
        tt == max(t - MAX_TILT_DELTA, min(t + MAX_TILT_DELTA, st))
    IN  IF abs(dx) < ddx /\ abs(dy) < ddy
        THEN << >>
        ELSE << <<"set_pan", tp>>, <<"set_tilt", tt>> >>

\* mutation of centre_cmds: the dead-zone comparisons are reversed
centre_cmds_dead_reversed(p, t, cx, cy, ddx, ddy) ==
    LET dx == cx - frame_w \div 2
        dy == cy - frame_h \div 2
        sp == p + Frac(ALPHA_PAN, (p - dx * deg_px_x) - p)
        st == t + Frac(ALPHA_TILT, (t - dy * deg_px_y) - t)
        tp == max(p - MAX_PAN_DELTA, min(p + MAX_PAN_DELTA, sp))
        tt == max(t - MAX_TILT_DELTA, min(t + MAX_TILT_DELTA, st))
    IN  IF abs(dx) > ddx /\ abs(dy) > ddy
        THEN << >>
        ELSE << <<"set_pan", tp>>, <<"set_tilt", tt>> >>

\* mutation of centre_cmds: no early return inside the dead-zone
centre_cmds_no_dead_zone(p, t, cx, cy, ddx, ddy) ==
    LET dx == cx - frame_w \div 2
        dy == cy - frame_h \div 2
        sp == p + Frac(ALPHA_PAN, (p - dx * deg_px_x) - p)
        st == t + Frac(ALPHA_TILT, (t - dy * deg_px_y) - t)
        tp == max(p - MAX_PAN_DELTA, min(p + MAX_PAN_DELTA, sp))
        tt == max(t - MAX_TILT_DELTA, min(t + MAX_TILT_DELTA, st))
    IN  << <<"set_pan", tp>>, <<"set_tilt", tt>> >>

\* mutation of centre_cmds: twice the way to the goal, written as it is
centre_cmds_overshoot(p, t, cx, cy, ddx, ddy) ==
    LET dx == cx - frame_w \div 2
        dy == cy - frame_h \div 2
        sp == p + 2 * ((p - dx * deg_px_x) - p)
        st == t + 2 * ((t - dy * deg_px_y) - t)
    IN  IF abs(dx) < ddx /\ abs(dy) < ddy
        THEN << >>
        ELSE << <<"set_pan", sp>>, <<"set_tilt", st>> >>

\* mutation of centre_cmds: each axis is tested against its own dead-zone and written
\* only when its own offset lies outside it
centre_cmds_per_axis(p, t, cx, cy, ddx, ddy) ==
    LET dx == cx - frame_w \div 2
        dy == cy - frame_h \div 2
        sp == p + Frac(ALPHA_PAN, (p - dx * deg_px_x) - p)
        st == t + Frac(ALPHA_TILT, (t - dy * deg_px_y) - t)
        tp == max(p - MAX_PAN_DELTA, min(p + MAX_PAN_DELTA, sp))
        tt == max(t - MAX_TILT_DELTA, min(t + MAX_TILT_DELTA, st))
    IN  (IF abs(dx) < ddx THEN << >> ELSE << <<"set_pan", tp>> >>)
            \o (IF abs(dy) < ddy THEN << >> ELSE << <<"set_tilt", tt>> >>)

\* the actuator calls _centre makes for face centre (cx, cy), each <<name, argument>>
centre_cmds(p, t, cx, cy, ddx, ddy) ==
    LET dx == cx - frame_w \div 2
        dy == cy - frame_h \div 2
        goal_pan == p - dx * deg_px_x
        goal_tilt == t - dy * deg_px_y
        sp == p + Frac(ALPHA_PAN, goal_pan - p)
        st == t + Frac(ALPHA_TILT, goal_tilt - t)
        tp == max(p - MAX_PAN_DELTA, min(p + MAX_PAN_DELTA, sp))
        tt == max(t - MAX_TILT_DELTA, min(t + MAX_TILT_DELTA, st))
    IN  IF abs(dx) < ddx /\ abs(dy) < ddy
        THEN << >>
        ELSE << <<"set_pan", tp>>, <<"set_tilt", tt>> >>

\* moved: whether _centre sleeps SETTLE_EXTRA after its writes
centre_moved(p, t, cmds) ==
    /\ cmds # << >>
    /\ \/ abs(cmds[1][2] - p) > MOVED_EPS
       \/ abs(cmds[2][2] - t) > MOVED_EPS

\* centre of the rescaled rectangle: x + w/2, y + h/2 after int(v / SCALE)
face_cx(f) == Rescale(f[1]) + Rescale(f[3]) \div 2

face_cy(f) == Rescale(f[2]) + Rescale(f[4]) \div 2

(***************************************************************************)
(* Actuator calls.  A call assigns the clamped angle, then _apply() writes *)
(* the bus; the write may raise.  wfail = 0: every call returns;           *)
(* wfail = k: the k-th call raises after its assignment.                   *)
(***************************************************************************)
Issued(cmds, wfail) == IF wfail = 0 THEN cmds ELSE SubSeq(cmds, 1, wfail)

\* index of the last call named nm among the first n of cmds (0: none)
RECURSIVE LastCall(_, _, _)
LastCall(cmds, nm, n) ==
    IF n = 0 THEN 0
    ELSE IF cmds[n][1] = nm THEN n
    ELSE LastCall(cmds, nm, n - 1)

\* _current_pan after the calls in cmds, made in order: the last set_pan decides
PanAfter(p, cmds) ==
    LET n == LastCall(cmds, "set_pan", Len(cmds))
    IN  IF n = 0 THEN p ELSE set_pan(cmds[n][2])

\* _current_tilt after the calls in cmds, made in order: the last set_tilt decides
TiltAfter(t, cmds) ==
    LET n == LastCall(cmds, "set_tilt", Len(cmds))
    IN  IF n = 0 THEN t ELSE set_tilt(cmds[n][2])

(***************************************************************************)
(* tracker.py: FaceTracker._initial_scan                                   *)
(***************************************************************************)
\* Python range(start, stop, stp), given as r = <<start, stop, stp>>: its length and
\* its i-th element (from 1)
range_len(r) ==
    IF r[3] > 0 THEN max(0, (r[2] - r[1] + r[3] - 1) \div r[3])
    ELSE max(0, (r[1] - r[2] - r[3] - 1) \div (-r[3]))

range_at(r, i) == r[1] + (i - 1) * r[3]

\* mutation of tilt_range: the rows go down to the tilt minimum
tilt_range_to_minimum == <<150, 69, -INIT_TILT_STEP>>

\* line 106: range(150, 99, -INIT_TILT_STEP)
tilt_range == <<150, 99, -INIT_TILT_STEP>>

\* mutation of pan_range: the stop is the last pan angle, which range() leaves out
pan_range_exclusive == <<30, 150, INIT_PAN_STEP>>

\* line 108: range(30, 151, INIT_PAN_STEP)
pan_range == <<30, 151, INIT_PAN_STEP>>

NPan == range_len(pan_range)

NWay == range_len(tilt_range) * NPan

\* mutation of Waypoint: the rows are swept from the pan maximum downwards
Waypoint_pan_descending(k) ==
    << range_at(pan_range, NPan - ((k - 1) % NPan)), range_at(tilt_range, ((k - 1) \div NPan) + 1) >>

\* the k-th waypoint in scan order, as <<pan, tilt>> in degrees
Waypoint(k) ==
    << range_at(pan_range, ((k - 1) % NPan) + 1), range_at(tilt_range, ((k - 1) \div NPan) + 1) >>

\* actuator calls at the k-th waypoint: set_tilt opens each row
waypoint_cmds(k) ==
    (IF (k - 1) % NPan = 0 THEN << <<"set_tilt", Deg(Waypoint(k)[2])>> >> ELSE << >>)
        \o << <<"set_pan", Deg(Waypoint(k)[1])>> >>

NoScan == [i |-> 0, best |-> 0, best_ang |-> None, best_wh |-> <<0, 0>>]

\* mutation of better: an equal area replaces the best too
better_or_equal(area, best) == area >= best

\* whether a detection of this area replaces the best so far (line 117)
better(area, best) == area > best

\* lines 114-120: the locals after waypoint k returned faces (None: empty list)
scan_update(sc, k, face) ==
    IF face # None /\ better(face[3] * face[4], sc.best)
    THEN [i |-> k, best |-> face[3] * face[4], best_ang |-> Waypoint(k),
          best_wh |-> << Rescale(face[3]), Rescale(face[4]) >>]
    ELSE [sc EXCEPT !.i = k]

\* the waypoints from which a face can be seen: the first, the end of the first row,
\* the last
Spots == {1, NPan, NWay}

\* what find_faces returns first at each spot (None: nothing); nothing elsewhere
Scenes == [Spots -> ScanFaces \cup {None}]

NoScene == [k \in Spots |-> None]

FaceAt(sn, k) == IF k \in Spots THEN sn[k] ELSE None

\* lines 106-120: the locals after the first n waypoints
RECURSIVE scan_loop(_, _, _)
scan_loop(sc, sn, n) ==
    IF sc.i >= n THEN sc
    ELSE scan_loop(scan_update(sc, sc.i + 1, FaceAt(sn, sc.i + 1)), sn, n)

\* the actuator calls of the first n waypoints, in order
RECURSIVE WaypointCmdsUpTo(_)
WaypointCmdsUpTo(n) == IF n = 0 THEN << >> ELSE WaypointCmdsUpTo(n - 1) \o waypoint_cmds(n)

ScanCmdsTable == { <<n, WaypointCmdsUpTo(n)>> : n \in 0..NWay }

scan_cmds(n) == (CHOOSE pr \in ScanCmdsTable : pr[1] = n)[2]

\* the locals at the end of the grid, per scene
ScanResults == { <<sn, scan_loop(NoScan, sn, NWay)>> : sn \in Scenes }

scan_result(sn) == (CHOOSE pr \in ScanResults : pr[1] = sn)[2]

\* lines 121-123: the calls that move to the best waypoint
finish_cmds(sc) ==
    IF sc.best_ang # None
    THEN << <<"set_pan", Deg(sc.best_ang[1])>>, <<"set_tilt", Deg(sc.best_ang[2])>> >>
    ELSE << >>

\* mutation of calib_x: the height is used for the horizontal half-extent
calib_x_from_height(sc, old) == IF sc.best_ang # None THEN sc.best_wh[2] \div 2 ELSE old

\* mutation of calib_x: a scan that finds no face puts the default back
calib_x_default_when_empty(sc, old) ==
    IF sc.best_ang # None THEN sc.best_wh[1] \div 2 ELSE default_dead

\* lines 124-125
calib_x(sc, old) == IF sc.best_ang # None THEN sc.best_wh[1] \div 2 ELSE old

\* mutation of calib_y: the assignment is made whether or not a face was found
calib_y_unconditional(sc, old) == sc.best_wh[2] \div 2

calib_y(sc, old) == IF sc.best_ang # None THEN sc.best_wh[2] \div 2 ELSE old

\* mutation of scan_mode: the mode is set only when a face was found
scan_mode_when_found(sc) == IF sc.best_ang # None THEN "TRACK" ELSE "INIT"

\* mutation of scan_mode: a scan puts the mode back to INIT
scan_mode_reinit(sc) == "INIT"

\* line 128: the mode at the end of the scan, whatever it found
scan_mode(sc) == "TRACK"

\* the ways a grid scan can raise: <<waypoint, call>>, the call being the waypoint's
\* k-th actuator call (1, 2) or its get_frame (0)
ScanFailures ==
    { <<k, c>> \in (1..NWay) \X (0..2) : c <= Len(waypoint_cmds(k)) }

\* the actuator calls made before (and including) the one that raises
failure_cmds(fl) ==
    scan_cmds(fl[1] - 1)
        \o (IF fl[2] = 0 THEN waypoint_cmds(fl[1]) ELSE SubSeq(waypoint_cmds(fl[1]), 1, fl[2]))

(***************************************************************************)
(* main.py: on_frame, the frame callback.  on_frame_wrapper runs it to its  *)
(* end for every frame the tracker hands over, one call at a time.          *)
(***************************************************************************)
DETECTION_WINDOW == 10

DETECTION_THRESHOLD == 5

API_THROTTLE == 30

\* line 98: the age below which the last result would be used again
CACHE_AGE == 10

\* seconds between two successive calls of on_frame
CallDelays == {0, DETECTION_WINDOW, DETECTION_WINDOW + 1, API_THROTTLE}

\* what send_image_to_api does: it returns a dict whose status is ok, reinit_required,
\* error (also every requests.RequestException) or something else, or it raises before
\* anything is posted (read_api_url, emotion_api.py line 30)
ApiResults == {"ok", "reinit_required", "error", "unknown", "raises"}

\* line 88: the detections not older than the window
prune(ds, t) == SelectSeq(ds, LAMBDA u : t - u <= DETECTION_WINDOW)

\* lines 86-88: the list after a frame in which find_faces returned a face or none
record_detection(ds, t, face) == IF face THEN prune(Append(ds, t), t) ELSE ds

\* mutation of stable: the throttle is not tested
stable_unthrottled(ds, t, last) == Len(ds) >= DETECTION_THRESHOLD

\* line 91
stable(ds, t, last) == Len(ds) >= DETECTION_THRESHOLD /\ t - last >= API_THROTTLE

\* mutation of use_cached: a stored result is used again whatever its age
use_cached_any_age(has, t, last) == has

\* line 98
use_cached(has, t, last) == has /\ t - last < CACHE_AGE

\* the detections of ds that lie within the window before t
recent(ds, t) == Cardinality({ i \in 1..Len(ds) : t - ds[i] <= DETECTION_WINDOW })

NoCall ==
    [now |-> -1, face |-> FALSE, outcome |-> "none", status |-> "-", recent |-> 0,
     held |-> 0, prev_post |-> -1, prev_api |-> 0]

\* lines 127-128, and the clock before the first call
on_frame_init ==
    /\ clock = FirstClock
    /\ detections = << >>
    /\ last_api_time = 0
    /\ has_result = FALSE
    /\ last_post = -1
    /\ call = NoCall

\* line 106: the list after a result was obtained
after_send(ds, res) == << >>

\* one call of on_frame, d seconds after the last: face is whether find_faces returned
\* anything, enc the flag of cv2.imencode, res what send_image_to_api does if called
on_frame(d, face, enc, res) ==
    LET t == clock + d
        ds == record_detection(detections, t, face)
        go == stable(ds, t, last_api_time)
        cached == use_cached(has_result, t, last_api_time)
        outcome == IF ~go THEN "idle"
                   ELSE IF ~enc THEN "encode_failed"
                   ELSE IF cached THEN "cached"
                   ELSE IF res = "raises" THEN "raised"
                   ELSE "sent"
        got == outcome \in {"cached", "sent"}
    IN  /\ t <= MaxClock
        /\ Len(ds) <= MaxDetections
        /\ clock' = t
        /\ detections' = IF got THEN after_send(ds, res) ELSE ds
        /\ last_api_time' = IF got THEN t ELSE last_api_time
        /\ has_result' = (has_result \/ outcome = "sent")
        /\ last_post' = IF outcome = "sent" THEN t ELSE last_post
        /\ call' = [now |-> t, face |-> face, outcome |-> outcome,
                    status |-> IF outcome = "sent" THEN res ELSE "-",
                    recent |-> recent(ds, t), held |-> Len(ds), prev_post |-> last_post,
                    prev_api |-> last_api_time]

(***************************************************************************)
(* emotion_worker.py: EmotionWorker                                        *)
(***************************************************************************)
\* __init__(cooldown=10)
cooldown == 10

\* queue.Queue(maxsize=5), lines 53-54
q_maxsize == 5

\* seconds between two successive readings of time.time() by run()
WorkDelays == {0, cooldown - 1, cooldown}

\* what the try block of lines 106-110 does: both calls return, _deepface_emotion
\* raises, _chatbot_reply raises
Analyses == {"ok", "emotion_raises", "reply_raises"}

Emotions == {"happy", "neutral"}

\* line 101
in_cooldown(t, last) == t - last < cooldown

\* lines 109 and 113: the tuple put for an analysis that ended as a (with emotion e)
result_tuple(a, e) == IF a = "ok" THEN <<e, "reply">> ELSE <<"neutral", "[error]">>

\* mutation of q_out_after: a failed analysis puts nothing
q_out_after_silent_failure(q, a, e) == IF a = "ok" THEN Append(q, result_tuple(a, e)) ELSE q

\* q_out after lines 106-113
q_out_after(q, a, e) == Append(q, result_tuple(a, e))

\* line 110, inside the try block and after the put: a failed analysis skips it
last_call_after(a, t, last) == IF a = "ok" THEN t ELSE last

NoStep == [op |-> "init", id |-> 0, at |-> -1, outcome |-> "-", put |-> None]

\* EmotionWorker.__init__, and the clock before the first request
worker_init ==
    /\ wclock = FirstClock
    /\ q_in = << >>
    /\ q_out = << >>
    /\ last_call = 0
    /\ job = 0
    /\ submitted = 0
    /\ taken = 0
    /\ puts = 0
    /\ starts = <<-1, -1>>
    /\ wev = NoStep

(***************************************************************************)
(* detector.py: find_faces, called on the half-size grey image              *)
(***************************************************************************)
\* MIN_AREA_RATIO = 0.1 and ASPECT_TOL = 0.25, as percentages
MIN_AREA_PCT == 10

ASPECT_TOL_PCT == 25

\* the image run() passes: cv2.resize(gray, (0,0), fx=SCALE, fy=SCALE)
small_w == (frame_w * ScaleNum) \div ScaleDen

small_h == (frame_h * ScaleNum) \div ScaleDen

\* rectangles <<x, y, w, h>> the cascade may return: one large, two of equal area, one
\* of exactly the minimum area, one too small, one too narrow, one of aspect exactly 0.75
CandRects ==
    { <<55, 34, 50, 52>>, <<58, 37, 45, 48>>, <<56, 37, 48, 45>>, <<60, 40, 40, 48>>,
      <<10, 10, 40, 40>>, <<10, 10, 45, 61>>, <<0, 0, 45, 60>> }

RECURSIVE SeqsUpTo(_, _)
SeqsUpTo(S, n) ==
    IF n = 0 THEN { << >> }
    ELSE LET shorter == SeqsUpTo(S, n - 1)
         IN  shorter \cup { Append(q, r) : q \in shorter, r \in S }

CandLists == SeqsUpTo(CandRects, MaxCands)

rect_area(r) == r[3] * r[4]

\* lines 57-63: whether a rectangle passes both filters (ar is 0 when h is 0)
keeps(r, frame_area) ==
    /\ ~(rect_area(r) * 100 < frame_area * MIN_AREA_PCT)
    /\ r[4] # 0
    /\ (100 - ASPECT_TOL_PCT) * r[4] <= 100 * r[3]
    /\ 100 * r[3] <= (100 + ASPECT_TOL_PCT) * r[4]

\* mutation of goes_before: smallest first
goes_before_smallest_first(a, b) == rect_area(a) <= rect_area(b)

\* line 66: sort by area, reverse=True; the sort is stable, so of two rectangles of
\* equal area the one that came first stays first
goes_before(a, b) == rect_area(a) >= rect_area(b)

\* r put into the sorted list q behind everything that goes before it
RECURSIVE insert_sorted(_, _)
insert_sorted(q, r) ==
    IF q = << >> THEN << r >>
    ELSE IF goes_before(q[1], r) THEN << q[1] >> \o insert_sorted(Tail(q), r)
    ELSE << r >> \o q

RECURSIVE sort_largest_first(_)
sort_largest_first(q) ==
    IF q = << >> THEN << >>
    ELSE insert_sorted(sort_largest_first(SubSeq(q, 1, Len(q) - 1)), q[Len(q)])

\* find_faces on an image of w x h pixels for which the cascade returned cs
find_faces(cs, w, h) ==
    IF Len(cs) = 0 THEN << >>
    ELSE sort_largest_first(SelectSeq(cs, LAMBDA r : keeps(r, w * h)))

\* tracker.py lines 143-144: the rectangle run() takes from the list
first_face(fs) == IF fs # << >> THEN fs[1] ELSE None

\* no frame in hand
detector_init ==
    /\ cands = << >>
    /\ faces = << >>
    /\ face0 = None
    /\ dpc = "done"

(***************************************************************************)
(* servo.py: angle_to_duty.  Angles are in hundredths of a degree; the      *)
(* float arithmetic of lines 16-20 is done exactly, on fractions.           *)
(***************************************************************************)
\* the defaults of the signature, lines 9-11
min_pulse_us_default == 1000

max_pulse_us_default == 2000

freq_default == 50

\* line 16: 180.0, in hundredths of a degree
half_turn == 18000

\* <<quotient, remainder>> of r * b divided by c, for 0 <= r < c and b >= 0, by doubling
\* along the binary digits of b (no intermediate value reaches 2 * c)
RECURSIVE muldivmod(_, _, _)
muldivmod(r, b, c) ==
    IF b = 0 THEN <<0, 0>>
    ELSE LET h == muldivmod(r, b \div 2, c)
             q2 == 2 * h[1] + (2 * h[2]) \div c
             r2 == (2 * h[2]) % c
         IN  IF b % 2 = 0 THEN <<q2, r2>>
             ELSE <<q2 + (r2 + r) \div c, (r2 + r) % c>>

\* int(a * b / c) for a, b >= 0 and c > 0
floor_muldiv(a, b, c) == (a \div c) * b + muldivmod(a % c, b, c)[1]

\* mutation of angle_to_duty: the angle is used as it comes
angle_to_duty_unclamped(a, min_pulse_us, max_pulse_us, freq) ==
    LET pulse_range == max_pulse_us - min_pulse_us
        pulse_num == min_pulse_us * half_turn + a * pulse_range
        period == 1000000 \div freq
    IN  floor_muldiv(pulse_num, 65535, half_turn * period)

\* lines 8-20; pulse is pulse_num / half_turn microseconds
angle_to_duty(a, min_pulse_us, max_pulse_us, freq) ==
    LET clamped == max(0, min(half_turn, a))
        pulse_range == max_pulse_us - min_pulse_us
        pulse_num == min_pulse_us * half_turn + clamped * pulse_range
        period == 1000000 \div freq
    IN  floor_muldiv(pulse_num, 65535, half_turn * period)

\* the angles a caller may pass: -10 to 190 degrees in steps of half a degree
DutyAngles == { 50 * k : k \in (-2 * MaxOvershoot)..(2 * (180 + MaxOvershoot)) }

\* no call in hand
duty_init ==
    /\ duty_angle = 0
    /\ duty = -1

(***************************************************************************)
(* emotion_master.py: SharedState, with threads that call set() and the     *)
(* listener thread of AnimatedGIFPlayer.listen_for_emotion.                 *)
(***************************************************************************)
\* the threads that call set()
Setters == {"s1", "s2"}

\* the (emotion, response) pairs passed to set()
Pairs == {"neutral", "happy"} \X {"Hello!", "Cheer up"}

\* SharedState.__init__, line 79
initial_pair == <<"neutral", "Hello!">>

\* line 87: whether set() stores its arguments and signals
pair_differs(pr, e, r) == pr[1] # e \/ pr[2] # r

\* mutation of listener_order: the flag is cleared after the pair was read
listener_order_get_first == <<"wait", "get", "clear">>

\* lines 95-97 and 151-152: changed.wait(), changed.clear(), then get()
listener_order == <<"wait", "clear", "get">>

\* SharedState.__init__; no call of set() in hand, the listener at the top of its loop
shared_init ==
    /\ ss_emotion = initial_pair[1]
    /\ ss_response = initial_pair[2]
    /\ ss_changed = FALSE
    /\ ss_lock = "-"
    /\ set_pc = [s \in Setters |-> "idle"]
    /\ set_args = [s \in Setters |-> initial_pair]
    /\ set_calls = 0
    /\ listen_pc = 1
    /\ seen = initial_pair

(***************************************************************************)
(* main.py: on_frame_wrapper, called by the tracker thread, and the main    *)
(* thread that runs the asyncio loop from the Tk main loop.                 *)
(***************************************************************************)
\* what the on_frame coroutine does when the loop runs it: it returns, or it raises
\* (line 123: raise)
CoroutineEnds == {"result", "exception"}

\* lines 153-154: whether integrate_asyncio_tkinter is scheduled again when its try
\* block raised
after_pump_error == FALSE

\* lines 157-160: display.after(10, integrate_asyncio_tkinter), then start() has started
\* the tracker thread and entered the Tk main loop
bridge_init ==
    /\ main_pc = "mainloop"
    /\ pump_armed = TRUE
    /\ loop_closed = FALSE
    /\ scheduled = FALSE
    /\ future = "none"
    /\ wrap_pc = "idle"
    /\ wrap_calls = 0
    /\ wrap_ret = "-"

more_init == duty_init /\ shared_init /\ bridge_init

(***************************************************************************)
(* State after construction.                                               *)
(***************************************************************************)
\* run configuration: tracker.py __main__ passes headless=False, main.py headless=True
headless == prog = "app"

\* main.py line 139 sets frame_callback; tracker.py __main__ passes None
has_callback == prog = "app"

\* what a frame callback may return (on_frame_wrapper returns None)
CallbackReturns == {"None", "value"}

\* the results of line 160 in a completed iteration ("-": no callback to call)
CallbackResults == IF has_callback THEN CallbackReturns ELSE {"-"}

\* lines 163-176: a window that reads the keyboard is shown
can_quit == ~headless \/ show_window

\* whether the quit key is seen by waitKey
QuitKeys == IF can_quit THEN BOOLEAN ELSE {FALSE}

\* mutation of run_thread: main.py calls tracker.run() itself
run_thread_inline == "main"

\* the thread that executes FaceTracker.run: main.py line 143 starts one for it
run_thread == IF prog = "app" THEN "tracker" ELSE "main"

thread_of(op) == IF op \in {"run", "iterate"} THEN run_thread ELSE "main"

\* the names of the calls in cmds
call_names(cmds) == [i \in 1..Len(cmds) |-> cmds[i][1]]

\* mutation of iter_steps: the callback is called before the actuator is written
iter_steps_callback_first(acted, called, quit) ==
    <<"frame", "detect">> \o (IF called THEN <<"callback">> ELSE << >>) \o acted
        \o (IF quit THEN << >> ELSE <<"sleep">>)

\* lines 137-184: what a completed iteration does, in order; face0 is what its branch
\* (lines 143-156) did, called whether there is a callback, quit whether it breaks
iter_steps(acted, called, quit) ==
    <<"frame", "detect">> \o acted \o (IF called THEN <<"callback">> ELSE << >>)
        \o (IF quit THEN << >> ELSE <<"sleep">>)

Event(op, frames, cmds, face, fail) ==
    [op |-> op, frames |-> frames, cmds |-> cmds, face |-> face,
     pan0 |-> current_pan, tilt0 |-> current_tilt, settle |-> FALSE, scanned |-> FALSE,
     elapsed |-> -1, quit |-> FALSE, fail |-> fail,
     thread |-> thread_of(op), steps |-> << >>, cb |-> "-", dead0 |-> <<dead_x, dead_y>>]

\* a step that ran a grid scan; the angles before it are not recorded.
\* elapsed is the value line 153 computes, -1 in a step that does not reach it
ScanEvent(op, frames, cmds, fail) ==
    [op |-> op, frames |-> frames, cmds |-> cmds, face |-> None,
     pan0 |-> None, tilt0 |-> None, settle |-> FALSE, scanned |-> TRUE,
     elapsed |-> -1, quit |-> FALSE, fail |-> fail,
     thread |-> thread_of(op), steps |-> << >>, cb |-> "-", dead0 |-> <<dead_x, dead_y>>]

\* PanTilt.__init__ and, for the tracker, Camera.__init__ and FaceTracker.__init__
\* (main.py: lines 67-72 and 139, executed by the main thread on import)
Init ==
    /\ \/ prog = "tracker" /\ pc = "new" /\ step = tracker_step /\ cam_open = TRUE
       \/ prog = "servo" /\ pc = "servo" /\ step = servo_step /\ cam_open = FALSE
       \/ prog = "app" /\ pc = "built" /\ step = tracker_step /\ cam_open = TRUE
    /\ show_window = FALSE
    /\ current_pan = centre_pan
    /\ current_tilt = centre_tilt
    /\ pca_active = TRUE
    /\ dead_x = default_dead
    /\ dead_y = default_dead
    /\ mode = "INIT"
    /\ last_face_time = 0
    /\ frame_no = 0
    /\ now = 0
    /\ scene = NoScene
    /\ ev = [op |-> "init", frames |-> 0, cmds |-> << <<"_apply", None>> >>, face |-> None,
             pan0 |-> None, tilt0 |-> None, settle |-> FALSE, scanned |-> FALSE,
             elapsed |-> -1, quit |-> FALSE, fail |-> "none",
             thread |-> "main", steps |-> << >>, cb |-> "-",
             dead0 |-> <<default_dead, default_dead>>]
    /\ on_frame_init
    /\ worker_init
    /\ more_init
    /\ detector_init

(***************************************************************************)
(* PanTilt used on its own (servo.py's main, any order of its methods).    *)
(***************************************************************************)
ClientCall(op, arg, p, t) ==
    /\ pc = "servo"
    /\ current_pan' = p
    /\ current_tilt' = t
    /\ ev' = Event(op, 0, << <<op, arg>> >>, None, "none")
    /\ UNCHANGED << others, prog, show_window, pc, step, pca_active, cam_open, dead_x, dead_y, mode, last_face_time,
                    frame_no, now, scene >>

PanLeft == ClientCall("pan_left", None, pan_left(current_pan), current_tilt)

PanRight == ClientCall("pan_right", None, pan_right(current_pan), current_tilt)

TiltUp == ClientCall("tilt_up", None, current_pan, tilt_up(current_tilt))

TiltDown == ClientCall("tilt_down", None, current_pan, tilt_down(current_tilt))

SetPan == \E a \in ClientAngles : ClientCall("set_pan", a, set_pan(a), current_tilt)

SetTilt == \E a \in ClientAngles : ClientCall("set_tilt", a, current_pan, set_tilt(a))

\* PanTilt.deinit at the end of servo.py's main
Deinit ==
    /\ pc = "servo"
    /\ pc' = "released"
    /\ pca_active' = FALSE
    /\ ev' = Event("deinit", 0, << >>, None, "none")
    /\ UNCHANGED << others, prog, show_window, step, current_pan, current_tilt, cam_open, dead_x, dead_y, mode,
                    last_face_time, frame_no, now, scene >>

(***************************************************************************)
(* main.py: the main thread                                                *)
(***************************************************************************)
\* start(), line 143: the tracker thread is started
Start ==
    /\ prog = "app"
    /\ pc = "built"
    /\ pc' = "new"
    /\ ev' = Event("start", 0, << >>, None, "none")
    /\ UNCHANGED << others, prog, show_window, step, current_pan, current_tilt, pca_active, cam_open,
                    dead_x, dead_y, mode, last_face_time, frame_no, now, scene >>

\* display.py toggle_debug (a Tk event of the main loop): enable_debug_window(True),
\* while the tracker thread is there to read it
ToggleDebug ==
    /\ prog = "app"
    /\ pc \in {"new", "loop"}
    /\ ~show_window
    /\ show_window' = TRUE
    /\ ev' = Event("toggle_debug", 0, << >>, None, "none")
    /\ UNCHANGED << others, prog, pc, step, current_pan, current_tilt, pca_active, cam_open,
                    dead_x, dead_y, mode, last_face_time, frame_no, now, scene >>

(***************************************************************************)
(* FaceTracker.run                                                         *)
(***************************************************************************)
\* whether the grid scan called from position p of run() is inside the try block
\* (the first scan, line 134, precedes it)
in_try(p) == p # "new"

\* mutation of on_raise: an exception in the loop is swallowed and the loop goes on
on_raise_continue(p) == IF p = "loop" THEN "loop" ELSE "raised"

\* where control goes when a call raises: run() has no except clause
on_raise(p) == "raised"

\* the finally block, lines 185-187
Finally ==
    /\ pca_active' = FALSE
    /\ cam_open' = FALSE

\* an exception in the step taken from position pc
Raise ==
    /\ pc' = on_raise(pc)
    /\ IF in_try(pc) THEN Finally ELSE UNCHANGED << pca_active, cam_open >>

\* mutation of breaks: a callback that returns a value ends the loop
breaks_on_callback(quit, r) == (can_quit /\ quit) \/ r = "value"

\* lines 158-176: whether the iteration leaves the loop; r is what the callback
\* returned, which line 160 discards
breaks(quit, r) == can_quit /\ quit

\* lines 158-184: callback, debug window and quit key, FPS, sleep
IterTail(quit, r) ==
    IF breaks(quit, r)
    THEN /\ pc' = "returned"
         /\ frame_no' = frame_no
         /\ Finally
    ELSE /\ pc' = "loop"
         /\ frame_no' = frame_no + 1
         /\ UNCHANGED << pca_active, cam_open >>

\* _initial_scan run to its end on scene sn, the clock then read after d seconds
ScanCompletes(op, sn, d) ==
    LET sc == scan_result(sn)
        cmds == scan_cmds(NWay) \o finish_cmds(sc)
    IN  /\ now + d <= MaxTime
        /\ current_pan' = PanAfter(current_pan, cmds)
        /\ current_tilt' = TiltAfter(current_tilt, cmds)
        /\ dead_x' = calib_x(sc, dead_x)
        /\ dead_y' = calib_y(sc, dead_y)
        /\ mode' = scan_mode(sc)
        /\ now' = now + d
        /\ last_face_time' = now'
        /\ scene' = sn
        /\ ev' = ScanEvent(op, NWay, cmds, "none")

\* frames read in the step before its grid scan begins: line 138 in a loop iteration
frames_before(op) == IF op = "iterate" THEN 1 ELSE 0

\* _initial_scan raising at a waypoint: fl = <<waypoint, call>>; el is the elapsed
\* time that started the scan (-1: the first scan)
ScanRaises(op, fl, el) ==
    /\ current_pan' = PanAfter(current_pan, failure_cmds(fl))
    /\ current_tilt' = TiltAfter(current_tilt, failure_cmds(fl))
    /\ scene' = NoScene
    /\ ev' = [ScanEvent(op, frames_before(op) + fl[1] - 1, failure_cmds(fl),
                        IF fl[2] = 0 THEN "camera" ELSE "actuator")
                EXCEPT !.elapsed = el]
    /\ Raise
    /\ UNCHANGED << dead_x, dead_y, mode, last_face_time, frame_no >>

\* _initial_scan raising in one of its last two actuator calls (lines 122-123)
ScanFinishRaises(op, sn, wfail, el) ==
    LET sc == scan_result(sn)
        cmds == scan_cmds(NWay) \o Issued(finish_cmds(sc), wfail)
    IN  /\ wfail <= Len(finish_cmds(sc))
        /\ current_pan' = PanAfter(current_pan, cmds)
        /\ current_tilt' = TiltAfter(current_tilt, cmds)
        /\ scene' = NoScene
        /\ ev' = [ScanEvent(op, frames_before(op) + NWay, cmds, "actuator")
                    EXCEPT !.elapsed = el]
        /\ Raise
        /\ UNCHANGED << dead_x, dead_y, mode, last_face_time, frame_no >>

\* run() up to the loop: line 134, the first grid scan
Run ==
    /\ pc = "new"
    /\ \/ \E sn \in Scenes, d \in Delays :
            /\ ScanCompletes("run", sn, d)
            /\ pc' = "loop"
            /\ UNCHANGED << frame_no, pca_active, cam_open >>
       \/ \E fl \in ScanFailures : ScanRaises("run", fl, -1) /\ now' = now
       \/ \E sn \in Scenes, wfail \in 1..2 : ScanFinishRaises("run", sn, wfail, -1) /\ now' = now
    /\ UNCHANGED << others, prog, show_window, step >>

\* a loop iteration whose get_frame raises
IterateCameraFails ==
    /\ pc = "loop"
    /\ frame_no < MaxFrames
    /\ \E d \in Delays :
        /\ now + d <= MaxTime
        /\ now' = now + d
    /\ ev' = [Event("iterate", 0, << >>, None, "camera") EXCEPT !.steps = <<"frame">>]
    /\ scene' = NoScene
    /\ Raise
    /\ UNCHANGED << others, prog, show_window, step, current_pan, current_tilt, dead_x, dead_y, mode, last_face_time,
                    frame_no >>

\* mutation of face_time: the timestamp is not refreshed
face_time_stale(t, last) == last

\* line 150: last_face_time after an accepted detection, the clock reading t
face_time(t, last) == t

\* a loop iteration whose detector returns a face: lines 143-150, then the tail; d is
\* the time since the last clock reading, quit the key seen, r the callback's result
FaceStep(d, face, quit, r) ==
    LET cmds == centre_cmds(current_pan, current_tilt, face_cx(face), face_cy(face),
                            dead_x, dead_y)
    IN  /\ pc = "loop"
        /\ frame_no < MaxFrames
        /\ now + d <= MaxTime
        /\ now' = now + d
        /\ current_pan' = PanAfter(current_pan, cmds)
        /\ current_tilt' = TiltAfter(current_tilt, cmds)
        /\ last_face_time' = face_time(now', last_face_time)
        /\ ev' = [Event("iterate", 1, cmds, face, "none")
                    EXCEPT !.settle = centre_moved(current_pan, current_tilt, cmds),
                           !.quit = quit, !.cb = r,
                           !.steps = iter_steps(call_names(cmds), has_callback,
                                                breaks(quit, r))]
        /\ IterTail(quit, r)
        /\ scene' = NoScene
        /\ UNCHANGED << others, prog, show_window, step, dead_x, dead_y, mode >>

\* the same iteration when the wfail-th actuator call of _centre raises
FaceStepRaises(d, face, wfail) ==
    LET cmds == centre_cmds(current_pan, current_tilt, face_cx(face), face_cy(face),
                            dead_x, dead_y)
    IN  /\ pc = "loop"
        /\ frame_no < MaxFrames
        /\ now + d <= MaxTime
        /\ wfail <= Len(cmds)
        /\ now' = now + d
        /\ current_pan' = PanAfter(current_pan, Issued(cmds, wfail))
        /\ current_tilt' = TiltAfter(current_tilt, Issued(cmds, wfail))
        /\ ev' = [Event("iterate", 1, Issued(cmds, wfail), face, "actuator")
                    EXCEPT !.steps = <<"frame", "detect">> \o call_names(Issued(cmds, wfail))]
        /\ Raise
        /\ scene' = NoScene
        /\ UNCHANGED << others, prog, show_window, step, dead_x, dead_y, mode, last_face_time,
                        frame_no >>

IterateFace ==
    \E d \in Delays, face \in LoopFaces :
        \/ \E quit \in QuitKeys, r \in CallbackResults : FaceStep(d, face, quit, r)
        \/ \E wfail \in 1..2 : FaceStepRaises(d, face, wfail)

\* mutations of timed_out: the timeout reached counts; the comparison is reversed
timed_out_at(t, last) == t - last >= TIMEOUT_NO_FACE

timed_out_reversed(t, last) == t - last < TIMEOUT_NO_FACE

\* mutation of timed_out: every frame without a face starts a grid scan
timed_out_always(t, last) == TRUE

\* mutation of timed_out: a third of the timeout is enough
timed_out_early(t, last) == 3 * (t - last) > TIMEOUT_NO_FACE

\* mutation of timed_out: the timeout never starts a grid scan
timed_out_never(t, last) == FALSE

\* whether lines 153-156 start a grid scan
timed_out(t, last) == t - last > TIMEOUT_NO_FACE

\* a loop iteration whose detector returns [] before the timeout: nothing, then the tail
NoFaceStep(d, quit, r) ==
    /\ pc = "loop"
    /\ frame_no < MaxFrames
    /\ now + d <= MaxTime
    /\ now' = now + d
    /\ ~timed_out(now', last_face_time)
    /\ ev' = [Event("iterate", 1, << >>, None, "none")
                EXCEPT !.elapsed = now' - last_face_time, !.quit = quit, !.cb = r,
                       !.steps = iter_steps(<< >>, has_callback, breaks(quit, r))]
    /\ IterTail(quit, r)
    /\ scene' = NoScene
    /\ UNCHANGED << others, prog, show_window, step, current_pan, current_tilt, dead_x, dead_y, mode,
                    last_face_time >>

IterateNoFace ==
    \E d \in Delays, quit \in QuitKeys, r \in CallbackResults : NoFaceStep(d, quit, r)

\* a loop iteration whose detector returns [] after the timeout: lines 153-156 run the
\* grid scan inside the iteration; t is the clock reading of line 153, sn what the scan
\* sees, d the time the scan takes
RescanStep(t, sn, d, quit, r) ==
    LET sc == scan_result(sn)
        cmds == scan_cmds(NWay) \o finish_cmds(sc)
    IN  /\ pc = "loop"
        /\ frame_no < MaxFrames
        /\ t + d <= MaxTime
        /\ timed_out(t, last_face_time)
        /\ current_pan' = PanAfter(current_pan, cmds)
        /\ current_tilt' = TiltAfter(current_tilt, cmds)
        /\ dead_x' = calib_x(sc, dead_x)
        /\ dead_y' = calib_y(sc, dead_y)
        /\ mode' = scan_mode(sc)
        /\ now' = t + d
        /\ last_face_time' = now'
        /\ scene' = sn
        /\ ev' = [ScanEvent("iterate", 1 + NWay, cmds, "none")
                    EXCEPT !.elapsed = t - last_face_time, !.quit = quit, !.cb = r,
                           !.steps = iter_steps(<<"scan">>, has_callback, breaks(quit, r))]
        /\ IterTail(quit, r)
        /\ UNCHANGED << others, prog, show_window, step >>

IterateRescan ==
    \E t \in {now + d : d \in Delays} :
        \/ \E sn \in Scenes, d \in Delays, quit \in QuitKeys, r \in CallbackResults :
                RescanStep(t, sn, d, quit, r)
        \/ /\ pc = "loop"
           /\ frame_no < MaxFrames
           /\ t <= MaxTime
           /\ timed_out(t, last_face_time)
           /\ now' = t
           /\ \/ \E fl \in ScanFailures : ScanRaises("iterate", fl, t - last_face_time)
              \/ \E sn \in Scenes, wfail \in 1..2 :
                    ScanFinishRaises("iterate", sn, wfail, t - last_face_time)
           /\ UNCHANGED << others, prog, show_window, step >>

Next ==
    \/ Start
    \/ ToggleDebug
    \/ PanLeft
    \/ PanRight
    \/ TiltUp
    \/ TiltDown
    \/ SetPan
    \/ SetTilt
    \/ Deinit
    \/ Run
    \/ IterateCameraFails
    \/ IterateFace
    \/ IterateNoFace
    \/ IterateRescan

Spec == Init /\ [][Next]_vars

(***************************************************************************)
(* The components that run without the tracker, each from a tracker that    *)
(* stays as constructed.                                                    *)
(***************************************************************************)
tracker_vars ==
    << show_window, pc, step, current_pan, current_tilt, pca_active, cam_open, dead_x,
       dead_y, mode, last_face_time, frame_no, now, scene, ev >>

\* the tracker's variables while another component is looked at
tracker_idle ==
    /\ show_window = FALSE
    /\ pc = "-"
    /\ step = tracker_step
    /\ current_pan = centre_pan
    /\ current_tilt = centre_tilt
    /\ pca_active = TRUE
    /\ cam_open = TRUE
    /\ dead_x = default_dead
    /\ dead_y = default_dead
    /\ mode = "INIT"
    /\ last_face_time = 0
    /\ frame_no = 0
    /\ now = 0
    /\ scene = NoScene
    /\ ev = [op |-> "init", frames |-> 0, cmds |-> << <<"_apply", None>> >>, face |-> None,
             pan0 |-> None, tilt0 |-> None, settle |-> FALSE, scanned |-> FALSE,
             elapsed |-> -1, quit |-> FALSE, fail |-> "none",
             thread |-> "main", steps |-> << >>, cb |-> "-",
             dead0 |-> <<default_dead, default_dead>>]

\* on_frame called frame after frame
InitOnFrame ==
    /\ prog = "on_frame"
    /\ tracker_idle
    /\ on_frame_init
    /\ worker_init
    /\ more_init
    /\ detector_init

OnFrame ==
    /\ prog = "on_frame"
    /\ \E d \in CallDelays, face \in BOOLEAN, enc \in BOOLEAN, res \in ApiResults :
            on_frame(d, face, enc, res)
    /\ UNCHANGED << prog, tracker_vars, more_vars, worker_vars, detector_vars >>

NextOnFrame == OnFrame

SpecOnFrame == InitOnFrame /\ [][NextOnFrame]_vars

\* the EmotionWorker thread, a producer that submits requests and a consumer of q_out
InitWorker ==
    /\ prog = "worker"
    /\ tracker_idle
    /\ on_frame_init
    /\ worker_init
    /\ more_init
    /\ detector_init

\* the producer: q_in.put_nowait((frame, rect)) while the queue has room (it raises
\* queue.Full otherwise and the queue is left as it is)
Submit ==
    /\ prog = "worker"
    /\ submitted < MaxRequests
    /\ Len(q_in) < q_maxsize
    /\ submitted' = submitted + 1
    /\ q_in' = Append(q_in, submitted + 1)
    /\ wev' = [NoStep EXCEPT !.op = "submit", !.id = submitted + 1]
    /\ UNCHANGED << prog, tracker_vars, more_vars, on_frame_vars, detector_vars, wclock, q_out, last_call, job, taken,
                    puts, starts >>

\* lines 100-102: a request is dequeued and either dropped or kept for analysis
Dequeue ==
    /\ prog = "worker"
    /\ job = 0
    /\ q_in # << >>
    /\ \E d \in WorkDelays :
        LET t == wclock + d
            drop == in_cooldown(t, last_call)
        IN  /\ t <= MaxClock
            /\ wclock' = t
            /\ q_in' = Tail(q_in)
            /\ job' = IF drop THEN 0 ELSE Head(q_in)
            /\ taken' = IF drop THEN taken ELSE taken + 1
            /\ starts' = IF drop THEN starts ELSE <<starts[2], t>>
            /\ wev' = [NoStep EXCEPT !.op = IF drop THEN "drop" ELSE "start",
                                     !.id = Head(q_in), !.at = t]
    /\ UNCHANGED << prog, tracker_vars, more_vars, on_frame_vars, detector_vars, q_out, last_call, submitted, puts >>

\* lines 103-113: the analysis and the put, which blocks while q_out is full
Analyse ==
    /\ prog = "worker"
    /\ job # 0
    /\ Len(q_out) < q_maxsize
    /\ \E d \in WorkDelays, a \in Analyses, e \in Emotions :
        LET t == wclock + d
        IN  /\ t <= MaxClock
            /\ wclock' = t
            /\ q_out' = q_out_after(q_out, a, e)
            /\ puts' = puts + (Len(q_out') - Len(q_out))
            /\ last_call' = last_call_after(a, t, last_call)
            /\ job' = 0
            /\ wev' = [op |-> "finish", id |-> job, at |-> t, outcome |-> a,
                       put |-> IF Len(q_out') > Len(q_out) THEN q_out'[Len(q_out')] ELSE None]
    /\ UNCHANGED << prog, tracker_vars, more_vars, on_frame_vars, detector_vars, q_in, submitted, taken, starts >>

\* the consumer: q_out.get
Consume ==
    /\ prog = "worker"
    /\ q_out # << >>
    /\ q_out' = Tail(q_out)
    /\ wev' = [NoStep EXCEPT !.op = "consume", !.put = Head(q_out)]
    /\ UNCHANGED << prog, tracker_vars, more_vars, on_frame_vars, detector_vars, wclock, q_in, last_call, job,
                    submitted, taken, puts, starts >>

NextWorker ==
    \/ Submit
    \/ Dequeue
    \/ Analyse
    \/ Consume

SpecWorker == InitWorker /\ [][NextWorker]_vars

\* one frame of run(): the cascade has returned cands, find_faces is still to filter
InitDetect ==
    /\ prog = "detector"
    /\ tracker_idle
    /\ on_frame_init
    /\ worker_init
    /\ more_init
    /\ cands \in CandLists
    /\ faces = << >>
    /\ face0 = None
    /\ dpc = "input"

\* tracker.py lines 141-144
Detect ==
    /\ prog = "detector"
    /\ dpc = "input"
    /\ faces' = find_faces(cands, small_w, small_h)
    /\ face0' = first_face(faces')
    /\ dpc' = "done"
    /\ UNCHANGED << prog, tracker_vars, more_vars, on_frame_vars, worker_vars, cands >>

NextDetect == Detect

SpecDetect == InitDetect /\ [][NextDetect]_vars

\* angle_to_duty called with its defaults
InitDuty ==
    /\ prog = "duty"
    /\ tracker_idle
    /\ on_frame_init
    /\ worker_init
    /\ detector_init
    /\ duty_angle \in DutyAngles
    /\ duty = -1
    /\ shared_init
    /\ bridge_init

AngleToDuty ==
    /\ prog = "duty"
    /\ duty = -1
    /\ duty' = angle_to_duty(duty_angle, min_pulse_us_default, max_pulse_us_default, freq_default)
    /\ UNCHANGED << prog, tracker_vars, on_frame_vars, worker_vars, detector_vars, shared_vars,
                    bridge_vars, duty_angle >>

NextDuty == AngleToDuty

SpecDuty == InitDuty /\ [][NextDuty]_vars

\* SharedState shared by the threads of Setters and one listener
InitShared ==
    /\ prog = "shared"
    /\ tracker_idle
    /\ on_frame_init
    /\ worker_init
    /\ detector_init
    /\ duty_init
    /\ shared_init
    /\ bridge_init

shared_rest ==
    << prog, tracker_vars, on_frame_vars, worker_vars, detector_vars, duty_vars, bridge_vars >>

\* thread s calls set(pr[1], pr[2])
SetCall(s, pr) ==
    /\ prog = "shared"
    /\ set_pc[s] = "idle"
    /\ set_calls < MaxSets
    /\ set_calls' = set_calls + 1
    /\ set_args' = [set_args EXCEPT ![s] = pr]
    /\ set_pc' = [set_pc EXCEPT ![s] = "acquire"]
    /\ UNCHANGED << shared_rest, ss_emotion, ss_response, ss_changed, ss_lock, listen_pc, seen >>

\* line 86: with self.lock
SetAcquire(s) ==
    /\ set_pc[s] = "acquire"
    /\ ss_lock = "-"
    /\ ss_lock' = s
    /\ set_pc' = [set_pc EXCEPT ![s] = "test"]
    /\ UNCHANGED << shared_rest, ss_emotion, ss_response, ss_changed, set_args, set_calls, listen_pc, seen >>

\* line 87
SetTest(s) ==
    /\ set_pc[s] = "test"
    /\ set_pc' = [set_pc EXCEPT ![s] = IF pair_differs(set_args[s], ss_emotion, ss_response)
                                         THEN "assign" ELSE "release"]
    /\ UNCHANGED << shared_rest, ss_emotion, ss_response, ss_changed, ss_lock, set_args, set_calls,
                    listen_pc, seen >>

\* lines 88-89; both fields are read only under the lock
SetAssign(s) ==
    /\ set_pc[s] = "assign"
    /\ ss_emotion' = set_args[s][1]
    /\ ss_response' = set_args[s][2]
    /\ set_pc' = [set_pc EXCEPT ![s] = "signal"]
    /\ UNCHANGED << shared_rest, ss_changed, ss_lock, set_args, set_calls, listen_pc, seen >>

\* line 90: self.changed.set()
SetSignal(s) ==
    /\ set_pc[s] = "signal"
    /\ ss_changed' = TRUE
    /\ set_pc' = [set_pc EXCEPT ![s] = "release"]
    /\ UNCHANGED << shared_rest, ss_emotion, ss_response, ss_lock, set_args, set_calls, listen_pc, seen >>

\* the end of the with block
SetRelease(s) ==
    /\ set_pc[s] = "release"
    /\ ss_lock' = "-"
    /\ set_pc' = [set_pc EXCEPT ![s] = "idle"]
    /\ UNCHANGED << shared_rest, ss_emotion, ss_response, ss_changed, set_args, set_calls, listen_pc, seen >>

\* the steps of a call of set() that thread s has begun
SetterStep(s) ==
    SetAcquire(s) \/ SetTest(s) \/ SetAssign(s) \/ SetSignal(s) \/ SetRelease(s)

\* the next step of the listener's loop: changed.wait() returns once the flag is set,
\* changed.clear() clears it, get() reads both fields under the lock (lines 92-94)
ListenerStep ==
    /\ prog = "shared"
    /\ LET op == listener_order[listen_pc]
       IN  /\ op = "wait" => ss_changed
           /\ op = "get" => ss_lock = "-"
           /\ ss_changed' = IF op = "clear" THEN FALSE ELSE ss_changed
           /\ seen' = IF op = "get" THEN <<ss_emotion, ss_response>> ELSE seen
    /\ listen_pc' = (listen_pc % Len(listener_order)) + 1
    /\ UNCHANGED << shared_rest, ss_emotion, ss_response, ss_lock, set_pc, set_args, set_calls >>

SetCalls == \E s \in Setters, pr \in Pairs : SetCall(s, pr)

SetterSteps == \E s \in Setters : SetterStep(s)

NextShared ==
    \/ SetCalls
    \/ SetterSteps
    \/ ListenerStep

\* every thread that can take a step takes one in the end (the threads are scheduled)
SpecShared ==
    /\ InitShared
    /\ [][NextShared]_vars
    /\ WF_vars(ListenerStep)
    /\ \A s \in Setters : WF_vars(SetterStep(s))

\* main.py run as a program: the tracker thread calls on_frame_wrapper frame after frame
InitBridge ==
    /\ prog = "bridge"
    /\ tracker_idle
    /\ on_frame_init
    /\ worker_init
    /\ detector_init
    /\ duty_init
    /\ shared_init
    /\ bridge_init

bridge_rest ==
    << prog, tracker_vars, on_frame_vars, worker_vars, detector_vars, duty_vars, shared_vars >>

\* lines 130-135, tracker.py line 160: run_coroutine_threadsafe hands the coroutine to
\* the loop and future.result() waits; on a closed loop it raises RuntimeError, which
\* line 136 catches
WrapperCall ==
    /\ prog = "bridge"
    /\ wrap_pc = "idle"
    /\ wrap_calls < MaxCalls
    /\ wrap_calls' = wrap_calls + 1
    /\ IF loop_closed
       THEN /\ wrap_ret' = "logged"
            /\ UNCHANGED << scheduled, future, wrap_pc >>
       ELSE /\ scheduled' = TRUE
            /\ future' = "pending"
            /\ wrap_pc' = "waiting"
            /\ UNCHANGED wrap_ret
    /\ UNCHANGED << bridge_rest, main_pc, pump_armed, loop_closed >>

\* future.result() returns or re-raises what the coroutine did; line 136 catches and logs
WrapperReturn ==
    /\ wrap_pc = "waiting"
    /\ future \in CoroutineEnds
    /\ wrap_pc' = "idle"
    /\ wrap_ret' = IF future = "result" THEN "returned" ELSE "logged"
    /\ future' = "none"
    /\ UNCHANGED << bridge_rest, main_pc, pump_armed, loop_closed, scheduled, wrap_calls >>

\* integrate_asyncio_tkinter, fired by Tk: run_until_complete runs what is scheduled
\* (on_frame has no await, so it runs to its end), then display.after arms it again
PumpRuns ==
    /\ prog = "bridge"
    /\ main_pc = "mainloop"
    /\ pump_armed
    /\ IF scheduled
       THEN /\ scheduled' = FALSE
            /\ \E e \in CoroutineEnds : future' = e
       ELSE UNCHANGED << scheduled, future >>
    /\ UNCHANGED << bridge_rest, main_pc, pump_armed, loop_closed, wrap_pc, wrap_calls, wrap_ret >>

\* integrate_asyncio_tkinter when its try block raises: lines 153-154 log the error
PumpRaises ==
    /\ prog = "bridge"
    /\ main_pc = "mainloop"
    /\ pump_armed
    /\ pump_armed' = after_pump_error
    /\ UNCHANGED << bridge_rest, main_pc, loop_closed, scheduled, future, wrap_pc, wrap_calls,
                    wrap_ret >>

\* display.py line 43: Escape destroys the window; mainloop, display.start() and start()
\* return and the main thread enters the finally block of line 165
CloseWindow ==
    /\ prog = "bridge"
    /\ main_pc = "mainloop"
    /\ main_pc' = "finally"
    /\ pump_armed' = FALSE
    /\ UNCHANGED << bridge_rest, loop_closed, scheduled, future, wrap_pc, wrap_calls, wrap_ret >>

\* line 173: loop.close() drops what is scheduled
LoopClose ==
    /\ main_pc = "finally"
    /\ main_pc' = "closed"
    /\ loop_closed' = TRUE
    /\ scheduled' = FALSE
    /\ UNCHANGED << bridge_rest, pump_armed, future, wrap_pc, wrap_calls, wrap_ret >>

\* the main thread ends; the tracker thread is a daemon (line 143) and ends with it
ProcessExit ==
    /\ main_pc = "closed"
    /\ main_pc' = "exited"
    /\ wrap_pc' = "dead"
    /\ UNCHANGED << bridge_rest, pump_armed, loop_closed, scheduled, future, wrap_calls, wrap_ret >>

NextBridge ==
    \/ WrapperCall
    \/ WrapperReturn
    \/ PumpRuns
    \/ PumpRaises
    \/ CloseWindow
    \/ LoopClose
    \/ ProcessExit

\* Tk fires a callback that is due while the main loop runs, and both threads go on
\* when they can; when the window is closed, and whether the pump raises, is open
SpecBridge ==
    /\ InitBridge
    /\ [][NextBridge]_vars
    /\ WF_vars(PumpRuns)
    /\ WF_vars(WrapperReturn)
    /\ WF_vars(LoopClose)
    /\ WF_vars(ProcessExit)

(***************************************************************************)
(* FaceTracker.run in main.py's configuration (headless, the window hidden, *)
(* a frame callback) when find_faces never returns a face and every call    *)
(* returns.  The loop has no exit then and runs for ever.  The code uses    *)
(* its clock readings only in differences (lines 129 and 153), so the clock *)
(* is counted from the end of the last grid scan: the reading of line 129   *)
(* is 0.  _frame_no is counted modulo MaxFrames + 1.                        *)
(***************************************************************************)
\* seconds between two successive clock readings of the loop
TickDelays == Delays \cup {1}

InitNoFace == Init /\ prog = "app"

\* _initial_scan run to its end with no face at any waypoint
empty_scan_cmds == scan_cmds(NWay) \o finish_cmds(scan_result(NoScene))

EmptyScan ==
    LET sc == scan_result(NoScene)
    IN  /\ current_pan' = PanAfter(current_pan, empty_scan_cmds)
        /\ current_tilt' = TiltAfter(current_tilt, empty_scan_cmds)
        /\ dead_x' = calib_x(sc, dead_x)
        /\ dead_y' = calib_y(sc, dead_y)
        /\ mode' = scan_mode(sc)
        /\ now' = 0
        /\ last_face_time' = now'
        /\ scene' = NoScene

\* line 134: the first grid scan
RunNoFace ==
    /\ pc = "new"
    /\ EmptyScan
    /\ ev' = ScanEvent("run", NWay, empty_scan_cmds, "none")
    /\ pc' = "loop"
    /\ UNCHANGED << others, prog, show_window, step, pca_active, cam_open, frame_no >>

\* the tail of an iteration that does not break: lines 158-184
NoFaceTail(r) ==
    /\ ~breaks(FALSE, r)
    /\ pc' = "loop"
    /\ frame_no' = (frame_no + 1) % (MaxFrames + 1)
    /\ UNCHANGED << pca_active, cam_open >>

\* a loop iteration d seconds after the last clock reading, the timeout not passed
HoldNoFace(d, r) ==
    /\ pc = "loop"
    /\ now + d <= MaxTime
    /\ now' = now + d
    /\ ~timed_out(now', last_face_time)
    /\ ev' = [Event("iterate", 1, << >>, None, "none")
                EXCEPT !.elapsed = now' - last_face_time, !.cb = r,
                       !.steps = iter_steps(<< >>, has_callback, breaks(FALSE, r))]
    /\ NoFaceTail(r)
    /\ scene' = NoScene
    /\ UNCHANGED << others, prog, show_window, step, current_pan, current_tilt, dead_x, dead_y, mode,
                    last_face_time >>

\* a loop iteration d seconds after the last clock reading, the timeout passed: lines
\* 153-156 run the grid scan
RescanNoFace(d, r) ==
    /\ pc = "loop"
    /\ timed_out(now + d, last_face_time)
    /\ EmptyScan
    /\ ev' = [ScanEvent("iterate", 1 + NWay, empty_scan_cmds, "none")
                EXCEPT !.elapsed = now + d - last_face_time, !.cb = r,
                       !.steps = iter_steps(<<"scan">>, has_callback, breaks(FALSE, r))]
    /\ NoFaceTail(r)
    /\ UNCHANGED << others, prog, show_window, step >>

IterateHold == \E d \in TickDelays, r \in CallbackResults : HoldNoFace(d, r)

IterateEmptyRescan == \E d \in TickDelays, r \in CallbackResults : RescanNoFace(d, r)

\* an iteration at a later clock reading: every iteration sleeps STEP_DELAY (line 184)
LoopAdvances ==
    \E d \in TickDelays \ {0}, r \in CallbackResults : HoldNoFace(d, r) \/ RescanNoFace(d, r)

NextNoFace ==
    \/ Start
    \/ RunNoFace
    \/ IterateHold
    \/ IterateEmptyRescan

\* the threads run (Start, RunNoFace and the iterations are always taken in the end)
\* and the clock advances
SpecNoFace ==
    /\ InitNoFace
    /\ [][NextNoFace]_vars
    /\ WF_vars(NextNoFace)
    /\ WF_vars(LoopAdvances)

(***************************************************************************)
(* Properties.  ev describes the step that led to the current state and    *)
(* scene the faces of the grid scan it ran, if it ran one.                 *)
(***************************************************************************)

\* C1: in every reachable state, after any PanTilt operations and any tracker steps,
\* the commanded pan angle is within [pan_min, pan_max] = [30, 150] and the commanded
\* tilt angle within [tilt_min, tilt_max] = [70, 150], also when the angle asked for
\* lies outside the range.
C1_AnglesWithinLimits ==
    /\ pan_min <= current_pan
    /\ current_pan <= pan_max
    /\ tilt_min <= current_tilt
    /\ current_tilt <= tilt_max

\* a centring step asked for a pan beyond pan_max and the axis stands at pan_max
C1_Witness ==
    /\ ev.op = "iterate"
    /\ ev.face # None
    /\ \E i \in 1..Len(ev.cmds) : ev.cmds[i][1] = "set_pan" /\ ev.cmds[i][2] > pan_max
    /\ current_pan = pan_max

\* C2: in an iteration with an accepted detection, whatever the face centre, the
\* centring step changes the pan angle by at most MAX_PAN_DELTA and the tilt angle by
\* at most MAX_TILT_DELTA from their values before the step.
C2_SlewLimited ==
    (ev.op = "iterate" /\ ev.face # None)
        => /\ abs(current_pan - ev.pan0) <= MAX_PAN_DELTA
           /\ abs(current_tilt - ev.tilt0) <= MAX_TILT_DELTA

\* a face 84 px right of the centre moved the pan by exactly MAX_PAN_DELTA
C2_Witness ==
    /\ ev.op = "iterate"
    /\ ev.face = <<100, 38, 44, 44>>
    /\ ev.fail = "none"
    /\ abs(face_cx(ev.face) - frame_w \div 2) * deg_px_x > 10 * MAX_PAN_DELTA
    /\ abs(current_pan - ev.pan0) = MAX_PAN_DELTA

\* C3: for a face centre with |dx| < dead_x and |dy| < dead_y the centring step calls
\* neither set_pan nor set_tilt and leaves pan and tilt unchanged.
C3_DeadZoneIsQuiet ==
    (/\ ev.op = "iterate"
     /\ ev.face # None
     /\ abs(face_cx(ev.face) - frame_w \div 2) < dead_x
     /\ abs(face_cy(ev.face) - frame_h \div 2) < dead_y)
        => /\ ev.cmds = << >>
           /\ current_pan = ev.pan0
           /\ current_tilt = ev.tilt0

\* a face 4 px off the centre on both axes was left alone
C3_Witness ==
    /\ ev.op = "iterate"
    /\ ev.face = <<60, 40, 44, 44>>
    /\ face_cx(ev.face) - frame_w \div 2 = 4
    /\ face_cy(ev.face) - frame_h \div 2 = 4
    /\ ev.cmds = << >>
    /\ current_pan = ev.pan0

\* C4: on every exit path of run() (quit key, exception in the control loop,
\* exception in the initial grid scan) the actuator is deinitialized and the camera
\* released before run() returns or propagates the error.
C4_ReleasedOnEveryExit ==
    pc \in {"returned", "raised"} => ~pca_active /\ ~cam_open

\* C5: when get_frame or an actuator write fails during the control loop the loop
\* stops: the exception leaves run(), and after it no frame is read, no angle is
\* commanded and nothing is retried (no step follows).
C5_FailureStopsLoop ==
    [][ /\ pc # "raised"
        /\ (ev'.op = "iterate" /\ ev'.fail # "none") => pc' = "raised"
        /\ (ev'.op = "iterate" /\ ev'.fail = "camera" /\ ~ev'.scanned)
              => ev'.cmds = << >> /\ ev'.frames = 0 ]_vars

\* set_pan raised in a centring step: set_tilt was not called and run() is left
C5_Witness ==
    /\ pc = "raised"
    /\ ev.op = "iterate"
    /\ ev.fail = "actuator"
    /\ ev.face # None
    /\ Len(ev.cmds) = 1

\* C6: in every loop iteration in which a detection is accepted (in the frame of the
\* iteration, or at a waypoint of the grid scan the iteration runs), last_face_time is
\* set to the current time and the mode at the end of the iteration is TRACK.
C6_DetectionRefreshes ==
    (/\ ev.op = "iterate"
     /\ ev.fail = "none"
     /\ ev.face # None \/ (ev.scanned /\ \E k \in Spots : scene[k] # None))
        => last_face_time = now /\ mode = "TRACK"

\* a detection 30 s after the scan moved last_face_time
C6_Witness ==
    /\ ev.op = "iterate"
    /\ ev.face # None
    /\ ev.fail = "none"
    /\ now >= TIMEOUT_NO_FACE
    /\ last_face_time = now
    /\ mode = "TRACK"

\* C7 as stated: with no accepted detection the mode is HOLD, MICRO or SWEEP,
\* according to elapsed = now - last_face_time.
C7_ModeFollowsElapsed ==
    (ev.op = "iterate" /\ ev.face = None /\ ev.fail = "none")
        => mode \in {"HOLD", "MICRO", "SWEEP"}

\* C7 amended: with no accepted detection the mode stays TRACK whatever elapsed is;
\* elapsed decides only whether the iteration re-runs the grid scan, which it does
\* exactly when elapsed > TIMEOUT_NO_FACE.
C7_TrackAndRescanByElapsed ==
    (ev.op = "iterate" /\ ev.face = None /\ ev.fail = "none")
        => /\ mode = "TRACK"
           /\ ev.scanned <=> ev.elapsed > TIMEOUT_NO_FACE

\* an iteration without a face, more than TIMEOUT_NO_FACE after the last one, scanned
C7_Witness ==
    /\ ev.op = "iterate"
    /\ ev.face = None
    /\ ev.fail = "none"
    /\ ev.elapsed > TIMEOUT_NO_FACE
    /\ ev.scanned
    /\ mode = "TRACK"

\* C8: in a loop iteration with an empty detector result while elapsed is below the
\* loss threshold, no actuator command is issued, pan, tilt, dead-zone, mode and
\* last_face_time are unchanged, and the loop goes on to the next iteration (unless
\* the quit key ends it).
C8_NoFaceChangesNothing ==
    [][ (/\ ev'.op = "iterate"
         /\ ev'.face = None
         /\ ev'.elapsed >= 0
         /\ ev'.elapsed < TIMEOUT_NO_FACE)
            => /\ ev'.cmds = << >>
               /\ ev'.fail = "none"
               /\ UNCHANGED << current_pan, current_tilt, dead_x, dead_y, mode,
                               last_face_time >>
               /\ ~ev'.quit => pc' = "loop" /\ frame_no' = frame_no + 1 ]_vars

\* an iteration without a face right after the scan, the loop going on
C8_Witness ==
    /\ ev.op = "iterate"
    /\ ev.face = None
    /\ ev.elapsed >= 0
    /\ ev.elapsed < TIMEOUT_NO_FACE
    /\ ev.cmds = << >>
    /\ pc = "loop"
    /\ frame_no > 0

\* C9: when at least one waypoint has a detection, the grid scan ends with the
\* actuator commanded to the waypoint whose face has the largest area, the first such
\* waypoint in scan order when several share it.
C9_ScanPicksLargestFirst ==
    (ev.scanned /\ ev.fail = "none" /\ \E k \in Spots : scene[k] # None)
        => LET Seen == {k \in Spots : scene[k] # None}
               Area(k) == scene[k][3] * scene[k][4]
               b == CHOOSE k \in Seen :
                        \A j \in Seen : Area(j) < Area(k) \/ (Area(j) = Area(k) /\ k <= j)
               n == Len(ev.cmds)
           IN  /\ current_pan = Deg(Waypoint(b)[1])
               /\ current_tilt = Deg(Waypoint(b)[2])
               /\ ev.cmds[n - 1] = <<"set_pan", Deg(Waypoint(b)[1])>>
               /\ ev.cmds[n] = <<"set_tilt", Deg(Waypoint(b)[2])>>

\* a smaller face at the first waypoint, the largest at the end of the first row and
\* again at the last waypoint: the scan ended at the end of the first row
C9_Witness ==
    /\ ev.scanned
    /\ ev.fail = "none"
    /\ scene[1] = <<58, 37, 45, 48>>
    /\ scene[NPan] = <<55, 34, 50, 52>>
    /\ scene[NWay] = <<55, 34, 50, 52>>
    /\ current_pan = Deg(150)
    /\ current_tilt = Deg(150)

\* C10: after a grid scan that found a face, dead_x is exactly half the rescaled
\* width (detector width / SCALE) and dead_y exactly half the rescaled height of the
\* best waypoint's detection.
C10_DeadZoneIsHalfFace ==
    (ev.scanned /\ ev.fail = "none" /\ \E k \in Spots : scene[k] # None)
        => LET Seen == {k \in Spots : scene[k] # None}
               Area(k) == scene[k][3] * scene[k][4]
               b == CHOOSE k \in Seen :
                        \A j \in Seen : Area(j) < Area(k) \/ (Area(j) = Area(k) /\ k <= j)
           IN  /\ 2 * dead_x * ScaleNum = scene[b][3] * ScaleDen
               /\ 2 * dead_y * ScaleNum = scene[b][4] * ScaleDen

\* two faces of equal area and different shape: the dead-zone is the first one's
C10_Witness ==
    /\ ev.scanned
    /\ ev.fail = "none"
    /\ scene[1] = <<58, 37, 45, 48>>
    /\ scene[NPan] = <<56, 37, 48, 45>>
    /\ scene[NWay] = None
    /\ dead_x = 45
    /\ dead_y = 48

\* C11 as stated: if the initial grid scan finds no face at any waypoint the
\* controller goes to SWEEP, not to TRACK, and does not block.
C11_EmptyScanSweeps ==
    (ev.op = "run" /\ ev.fail = "none" /\ \A k \in Spots : scene[k] = None)
        => mode = "SWEEP" /\ pc = "loop"

\* C11 amended: if the initial grid scan finds no face at any waypoint the controller
\* goes to TRACK all the same (there is no SWEEP): the axes stay at the last waypoint
\* (pan 150, tilt 100), the dead-zone keeps its default, last_face_time is the time
\* the scan ended, and run() enters its loop.
C11_EmptyScanTracks ==
    (ev.op = "run" /\ ev.fail = "none" /\ \A k \in Spots : scene[k] = None)
        => /\ mode = "TRACK"
           /\ pc = "loop"
           /\ current_pan = Deg(150)
           /\ current_tilt = Deg(100)
           /\ dead_x = 40
           /\ dead_y = 40
           /\ last_face_time = now

\* the initial scan ended without a face, 30 s after it began
C11_Witness ==
    /\ ev.op = "run"
    /\ ev.fail = "none"
    /\ ev.scanned
    /\ \A k \in Spots : scene[k] = None
    /\ now = TIMEOUT_NO_FACE
    /\ mode = "TRACK"
    /\ pc = "loop"

\* C12: the initial scan covers the full actuator range on its grid: tilt from the
\* tilt maximum (150) down to the tilt minimum (70) in steps of INIT_TILT_STEP and,
\* for each tilt, pan from the pan minimum (30) up to the pan maximum (150) in steps
\* of INIT_PAN_STEP, both axes being commanded to a waypoint before its frame is read.
C12_ScanCoversFullRange ==
    (ev.op = "run" /\ ev.scanned /\ ev.fail = "none")
        => /\ \A t \in 70..150 :
                (150 - t) % INIT_TILT_STEP = 0
                    => \E i \in 1..Len(ev.cmds) : ev.cmds[i] = <<"set_tilt", Deg(t)>>
           /\ \A p \in 30..150 :
                (p - 30) % INIT_PAN_STEP = 0
                    => \E i \in 1..Len(ev.cmds) : ev.cmds[i] = <<"set_pan", Deg(p)>>
           /\ Deg(70) = tilt_min /\ Deg(150) = tilt_max
           /\ Deg(30) = pan_min /\ Deg(150) = pan_max

\* C13 as stated: the dead-zone is recalibrated once: default (40, 40) from
\* construction, assigned at the end of the initial scan, and changed by no later
\* loop iteration or scan.
C13_CalibratedOnce ==
    /\ pc \in {"built", "new"} => dead_x = 40 /\ dead_y = 40
    /\ ev.op = "iterate" => <<dead_x, dead_y>> = ev.dead0

\* C13 amended: the dead-zone holds the default (40, 40) from construction until the
\* initial scan; it is assigned by every grid scan that finds a face, the initial one
\* and each re-scan a loop iteration runs after TIMEOUT_NO_FACE, and by nothing else
\* (not by an iteration that does not scan, nor by a scan that finds no face).
C13_CalibratedByEveryScan ==
    /\ pc \in {"built", "new"} => dead_x = 40 /\ dead_y = 40
    /\ <<dead_x, dead_y>> # ev.dead0
          => /\ ev.op \in {"run", "iterate"}
             /\ ev.scanned
             /\ ev.fail = "none"
             /\ \E k \in Spots : scene[k] # None /\ dead_x = scene[k][3] /\ dead_y = scene[k][4]
    /\ (ev.scanned /\ ev.fail = "none" /\ \A k \in Spots : scene[k] = None)
          => <<dead_x, dead_y>> = ev.dead0

\* a re-scan inside a loop iteration replaced a calibrated dead-zone by another
C13_Witness ==
    /\ ev.op = "iterate"
    /\ ev.scanned
    /\ ev.fail = "none"
    /\ ev.dead0 = <<50, 52>>
    /\ dead_x = 45
    /\ dead_y = 48

\* C14: in the centring step, whenever the offset is outside the dead-zone with
\* dx # 0 and the pan is not at the range bound it would move toward, a pan command
\* is issued that changes pan by a non-zero amount of at most MAX_PAN_DELTA, opposite
\* to the sign of dx (dx > 0 decreases pan); with dead_x = dead_y = 40, dx = 80 and
\* dy = 0 the pan step is clamped to MAX_PAN_DELTA.
C14_PanOpposesOffset ==
    (ev.op = "iterate" /\ ev.face # None)
        => LET dx == face_cx(ev.face) - frame_w \div 2
               dy == face_cy(ev.face) - frame_h \div 2
               delta == current_pan - ev.pan0
           IN  /\ (/\ ~(abs(dx) < dead_x /\ abs(dy) < dead_y)
                   /\ dx # 0
                   /\ ~(dx > 0 /\ ev.pan0 = pan_min)
                   /\ ~(dx < 0 /\ ev.pan0 = pan_max))
                      => /\ ev.cmds # << >>
                         /\ ev.cmds[1][1] = "set_pan"
                         /\ dx > 0 => (delta < 0 /\ delta >= -MAX_PAN_DELTA)
                         /\ dx < 0 => (delta > 0 /\ delta <= MAX_PAN_DELTA)
               /\ (/\ dead_x = 40 /\ dead_y = 40
                   /\ dx = 80 /\ dy = 0
                   /\ ev.pan0 - MAX_PAN_DELTA >= pan_min)
                      => delta = -MAX_PAN_DELTA

\* the scenario: default dead-zone, a face 80 px right of the centre, pan one
\* MAX_PAN_DELTA lower
C14_Witness ==
    /\ ev.op = "iterate"
    /\ ev.face = <<98, 38, 44, 44>>
    /\ face_cx(ev.face) - frame_w \div 2 = 80
    /\ face_cy(ev.face) - frame_h \div 2 = 0
    /\ dead_x = 40
    /\ dead_y = 40
    /\ ev.cmds[1][1] = "set_pan"
    /\ current_pan = ev.pan0 - MAX_PAN_DELTA

\* C15: when the accepted face's centre is exactly the frame centre (offset (0, 0)),
\* the centring step issues no actuator command, whatever the dead-zone is.
C15_CentredFaceIsQuiet ==
    (/\ ev.op = "iterate"
     /\ ev.face # None
     /\ face_cx(ev.face) = frame_w \div 2
     /\ face_cy(ev.face) = frame_h \div 2)
        => ev.cmds = << >> /\ ev.fail = "none"

\* a centred face, with a dead-zone other than the default, and no command
C15_Witness ==
    /\ ev.op = "iterate"
    /\ ev.face = <<58, 38, 44, 44>>
    /\ face_cx(ev.face) = 160
    /\ face_cy(ev.face) = 120
    /\ dead_x = 45
    /\ dead_y = 48
    /\ ev.cmds = << >>

\* C16: set_pan(a) and set_tilt(a) store clamp(a, axis_min, axis_max) as the commanded
\* angle of their axis, leave the other axis unchanged, and are idempotent: the same
\* call made again leaves both angles as they are, for every angle a.
C16_SettersClampAndAreIdempotent ==
    /\ ev.op = "set_pan"
          => LET a == ev.cmds[1][2]
             IN  /\ current_pan = (IF a < pan_min THEN pan_min
                                   ELSE IF a > pan_max THEN pan_max ELSE a)
                 /\ current_tilt = ev.tilt0
                 /\ PanAfter(current_pan, ev.cmds) = current_pan
                 /\ TiltAfter(current_tilt, ev.cmds) = current_tilt
    /\ ev.op = "set_tilt"
          => LET a == ev.cmds[1][2]
             IN  /\ current_tilt = (IF a < tilt_min THEN tilt_min
                                    ELSE IF a > tilt_max THEN tilt_max ELSE a)
                 /\ current_pan = ev.pan0
                 /\ PanAfter(current_pan, ev.cmds) = current_pan
                 /\ TiltAfter(current_tilt, ev.cmds) = current_tilt

\* set_tilt(20) stored the tilt minimum and kept a pan that set_pan(160) had put at
\* the pan maximum
C16_Witness ==
    /\ ev.op = "set_tilt"
    /\ ev.cmds = << <<"set_tilt", Deg(20)>> >>
    /\ current_tilt = tilt_min
    /\ ev.pan0 = pan_max
    /\ current_pan = pan_max

\* C17: in every control-loop iteration the steps occur in the order frame
\* acquisition, detection, actuator command (if any), observer callback,
\* inter-iteration delay; the callback is invoked exactly once per completed
\* iteration and never before that iteration's actuator write has completed.
C17_IterationOrder ==
    ev.op = "iterate"
        => LET n == Len(ev.steps)
               Calls == {i \in 1..n : ev.steps[i] = "callback"}
               Writes == {i \in 1..n : ev.steps[i] \in {"set_pan", "set_tilt", "scan"}}
           IN  /\ ev.fail # "none" => Calls = {}
               /\ ev.fail = "none"
                     => /\ ev.steps[1] = "frame"
                        /\ ev.steps[2] = "detect"
                        /\ Cardinality(Calls) = (IF prog = "app" THEN 1 ELSE 0)
                        /\ ev.cb # "-" <=> Calls # {}
                        /\ \A c \in Calls, w \in Writes : 2 < w /\ w < c
                        /\ \A i \in 1..n : ev.steps[i] = "sleep" => i = n /\ Calls \subseteq 1..(n - 1)
                        /\ ev.steps[n] = "sleep" <=> ~ev.quit
                        /\ ev.cmds # << >> => Writes # {}

\* an iteration of the application that wrote both axes, then called the callback,
\* then slept
C17_Witness ==
    /\ prog = "app"
    /\ ev.op = "iterate"
    /\ ev.fail = "none"
    /\ ev.steps = <<"frame", "detect", "set_pan", "set_tilt", "callback", "sleep">>
    /\ current_pan # ev.pan0

\* C18 as stated: in the application at most one thread ever writes to the actuator:
\* the PanTilt object is written only by the tracker thread, and its commands are
\* applied in the order of the frames that produced them.
C18_OnlyTrackerThreadWrites ==
    (prog = "app" /\ ev.cmds # << >>) => ev.thread = "tracker"

\* C18 amended: in the application the main thread writes the actuator once, when it
\* constructs the PanTilt (which centres both axes) before the tracker thread is
\* started; from then on only the tracker thread writes it or deinitializes it, each
\* command within the iteration whose frame produced it, and a step of the main
\* thread leaves both angles as they are.
C18_OneWriterAfterConstruction ==
    prog = "app"
        => /\ ev.op = "init" => ev.thread = "main" /\ ev.cmds = << <<"_apply", None>> >>
           /\ (ev.op # "init" /\ ev.cmds # << >>)
                 => ev.thread = "tracker" /\ ev.op \in {"run", "iterate"}
           /\ (ev.op = "iterate" /\ ev.cmds # << >>) => ev.frames >= 1
           /\ (ev.op # "init" /\ ev.thread = "main")
                 => current_pan = ev.pan0 /\ current_tilt = ev.tilt0
           /\ pc = "built" => ev.thread = "main"
           /\ ~pca_active => pc \in {"returned", "raised"} /\ ev.thread = "tracker"

\* while the main thread has toggled the debug window, the tracker thread wrote both
\* axes in an iteration
C18_Witness ==
    /\ prog = "app"
    /\ show_window
    /\ ev.op = "iterate"
    /\ ev.thread = "tracker"
    /\ Len(ev.cmds) = 2
    /\ current_tilt # ev.tilt0

\* C19: the observer output does not feed back into control: two runs given the same
\* detection results and the same clock readings but callbacks returning different
\* values issue the same actuator commands and make the same mode transitions.  For
\* every iteration step taken with one callback result, the step with the same
\* inputs and any other callback result is possible too and differs in nothing but
\* the recorded result.
C19_CallbackDoesNotFeedBack ==
    [][ (ev'.op = "iterate" /\ ev'.cb # "-")
            => \A r2 \in CallbackReturns \ {ev'.cb} :
                 \E twin \in { << others', prog', show_window', pc', step', current_pan',
                                  current_tilt', pca_active', cam_open', dead_x', dead_y',
                                  mode', last_face_time', frame_no', now', scene',
                                  [ev' EXCEPT !.cb = r2] >> },
                    face \in {ev'.face}, quit \in {ev'.quit}, sn \in {scene'},
                    el \in {ev'.elapsed}, t1 \in {now'} :
                    IF face # None
                    THEN ENABLED (FaceStep(t1 - now, face, quit, r2) /\ vars' = twin)
                    ELSE IF ~ev'.scanned
                    THEN ENABLED (NoFaceStep(t1 - now, quit, r2) /\ vars' = twin)
                    ELSE ENABLED (RescanStep(last_face_time + el, sn,
                                             t1 - (last_face_time + el), quit, r2)
                                    /\ vars' = twin) ]_vars

\* an iteration of the application whose callback returned a value, the loop going on
\* after both axes were written
C19_Witness ==
    /\ prog = "app"
    /\ ev.op = "iterate"
    /\ ev.cb = "value"
    /\ ev.fail = "none"
    /\ Len(ev.cmds) = 2
    /\ pc = "loop"

\* the number of calls of one PanTilt method in a command sequence
count_cmd(cmds, name) == Cardinality({ i \in 1..Len(cmds) : cmds[i][1] = name })

\* C20 as stated: once the first scan has completed, every loop iteration issues at
\* most one pan command and one tilt command and never runs a multi-waypoint scan.
C20_NoScanInsideIteration ==
    ev.op = "iterate"
        => /\ ~ev.scanned
           /\ count_cmd(ev.cmds, "set_pan") <= 1
           /\ count_cmd(ev.cmds, "set_tilt") <= 1

\* C20: an iteration that has a detection, or whose elapsed time since the last face
\* is at most TIMEOUT_NO_FACE, issues at most one pan command and one tilt command and
\* reads one frame; an iteration without a detection whose elapsed time exceeds
\* TIMEOUT_NO_FACE runs the grid scan inside the iteration: a completed one visits all
\* NWay waypoints, commanding the pan and reading a frame at each and commanding the
\* tilt at each row, before the iteration ends.
C20_OnlyTimedOutIterationScans ==
    ev.op = "iterate"
        => /\ ~ev.scanned
                => /\ count_cmd(ev.cmds, "set_pan") <= 1
                   /\ count_cmd(ev.cmds, "set_tilt") <= 1
                   /\ Len(ev.cmds) <= 2
                   /\ ev.frames <= 1
           /\ ev.scanned => ev.face = None
           /\ (ev.scanned /\ ev.fail = "none")
                => /\ ev.elapsed > TIMEOUT_NO_FACE
                   /\ ev.frames = 1 + NWay
                   /\ count_cmd(ev.cmds, "set_pan") >= NWay
                   /\ count_cmd(ev.cmds, "set_tilt") >= NWay \div NPan
           /\ (ev.elapsed >= 0 /\ ev.elapsed <= TIMEOUT_NO_FACE) => ~ev.scanned

\* a loop iteration that timed out and ran the whole grid scan before the loop went on
C20_Witness ==
    /\ ev.op = "iterate"
    /\ ev.scanned
    /\ ev.fail = "none"
    /\ ev.elapsed = TIMEOUT_NO_FACE + 1
    /\ ev.frames = 1 + NWay
    /\ count_cmd(ev.cmds, "set_pan") > 1
    /\ pc = "loop"

\* C24: on_frame posts a frame to the emotion API only after stable detections: in
\* every call that posts, at least DETECTION_THRESHOLD of the recorded detections lie
\* within the DETECTION_WINDOW before that frame.
C24_SendsOnlyAfterRecentDetections ==
    call.outcome = "sent" => call.recent >= DETECTION_THRESHOLD

\* C25: two consecutive posts of on_frame are at least API_THROTTLE apart; after every
\* post, whatever the status of its result, the detection list is empty and
\* last_api_time is the time of the post, and every detection held at any time was
\* recorded no earlier than the last post, so that a later post counts
\* DETECTION_THRESHOLD detections made since.
C25_SendsThrottledAndListCleared ==
    /\ call.outcome = "sent"
            => /\ call.prev_post >= 0 => call.now - call.prev_post >= API_THROTTLE
               /\ call.held >= DETECTION_THRESHOLD
               /\ detections = << >>
               /\ last_api_time = call.now
               /\ last_post = call.now
    /\ last_post >= 0 => \A i \in 1..Len(detections) : detections[i] >= last_post

\* a second post, exactly API_THROTTLE after the first, whose result was not ok
C25_Witness ==
    /\ call.outcome = "sent"
    /\ call.status = "error"
    /\ call.prev_post >= 0
    /\ call.now - call.prev_post = API_THROTTLE
    /\ detections = << >>

\* C26: EmotionWorker keeps at least `cooldown` seconds between analyses: no two
\* analyses start less than cooldown apart, whatever the outcome of the earlier one.
C26_AnalysesAreCooldownApart ==
    starts[1] >= 0 => starts[2] - starts[1] >= cooldown

\* C27: for every request the worker dequeues and does not drop, exactly one tuple is
\* put on q_out: as many tuples were put as requests were taken, less the one in hand;
\* the step that ends an analysis appends one tuple, (emotion, reply) when both calls
\* returned and ("neutral", error text) when either raised.
C27_OneTuplePerRequest ==
    /\ puts = taken - (IF job # 0 THEN 1 ELSE 0)
    /\ wev.op = "finish"
            => /\ q_out # << >>
               /\ q_out[Len(q_out)] = wev.put
               /\ wev.outcome = "ok" => wev.put \in Emotions \X {"reply"}
               /\ wev.outcome # "ok" => wev.put = <<"neutral", "[error]">>

\* a failed analysis has just put its error tuple behind the tuples of earlier requests
C27_Witness ==
    /\ wev.op = "finish"
    /\ wev.outcome = "reply_raises"
    /\ Len(q_out) > 1
    /\ q_out[Len(q_out)] = <<"neutral", "[error]">>
    /\ puts = taken

\* the number of times r occurs in the list q
occurrences(q, r) == Cardinality({ i \in 1..Len(q) : q[i] = r })

\* C23: find_faces returns exactly the rectangles whose area is at least
\* MIN_AREA_RATIO times the image area and whose width/height lies in
\* [1 - tol, 1 + tol], each as often as the cascade gave it, in order of non-increasing
\* area; it returns the empty list when none qualifies; run() acts on the first
\* element, which no qualifying rectangle exceeds in area.
C23_ActsOnLargestQualifyingFace ==
    dpc = "done" /\ prog = "detector"
        => LET qualifies(r) ==
                   /\ 100 * r[3] * r[4] >= MIN_AREA_PCT * small_w * small_h
                   /\ 4 * r[3] >= 3 * r[4]
                   /\ 4 * r[3] <= 5 * r[4]
           IN  /\ \A i \in 1..Len(faces) : qualifies(faces[i])
               /\ \A r \in CandRects :
                     occurrences(faces, r) = IF qualifies(r) THEN occurrences(cands, r) ELSE 0
               /\ \A i, j \in 1..Len(faces) :
                     i < j => faces[i][3] * faces[i][4] >= faces[j][3] * faces[j][4]
               /\ (\A i \in 1..Len(cands) : ~qualifies(cands[i]))
                     => faces = << >> /\ face0 = None
               /\ (\E i \in 1..Len(cands) : qualifies(cands[i]))
                     => /\ face0 = faces[1]
                        /\ \A i \in 1..Len(cands) :
                              qualifies(cands[i])
                                 => face0[3] * face0[4] >= cands[i][3] * cands[i][4]

\* the cascade gave a rectangle that is too narrow, then a small qualifying one, then
\* the largest: two are returned and the last given is face0 on
C23_Witness ==
    /\ prog = "detector"
    /\ dpc = "done"
    /\ cands = << <<10, 10, 45, 61>>, <<60, 40, 40, 48>>, <<55, 34, 50, 52>> >>
    /\ faces = << <<55, 34, 50, 52>>, <<60, 40, 40, 48>> >>
    /\ face0 = <<55, 34, 50, 52>>

\* whether v lies between a and b, the ends included
between(v, a, b) == min(a, b) <= v /\ v <= max(a, b)

\* C28: outside the dead-zone a centering step never overshoots: on each axis the
\* angle written, and the angle the actuator holds afterwards, lie between the angle
\* before the step and the goal angle (current - offset * degrees per pixel), ends
\* included, after smoothing (ALPHA_PAN = 0.35, ALPHA_TILT = 0.25), the slew clamp and
\* the range clamp.
C28_CentreNeverOvershoots ==
    (ev.op = "iterate" /\ ev.face # None /\ ev.cmds # << >>)
        => LET goal_pan == ev.pan0 - (face_cx(ev.face) - frame_w \div 2) * deg_px_x
               goal_tilt == ev.tilt0 - (face_cy(ev.face) - frame_h \div 2) * deg_px_y
           IN  /\ between(current_pan, ev.pan0, goal_pan)
               /\ between(current_tilt, ev.tilt0, goal_tilt)
               /\ \A i \in 1..Len(ev.cmds) :
                     /\ ev.cmds[i][1] = "set_pan" => between(ev.cmds[i][2], ev.pan0, goal_pan)
                     /\ ev.cmds[i][1] = "set_tilt" => between(ev.cmds[i][2], ev.tilt0, goal_tilt)

\* a step that moved both axes part of the way to goals that lie further off: the pan
\* by the smoothed amount, the tilt by the slew limit
C28_Witness ==
    /\ ev.op = "iterate"
    /\ ev.face # None
    /\ ev.fail = "none"
    /\ current_pan # ev.pan0
    /\ abs(current_pan - ev.pan0) < MAX_PAN_DELTA
    /\ abs(current_pan - ev.pan0) < abs((face_cx(ev.face) - frame_w \div 2) * deg_px_x)
    /\ abs(current_tilt - ev.tilt0) = MAX_TILT_DELTA
    /\ abs((face_cy(ev.face) - frame_h \div 2) * deg_px_y) > MAX_TILT_DELTA

\* C29: the settle delay is taken after a centering step if and only if the step
\* changed an angle by more than the epsilon (0.01 degree); a step that leaves both
\* angles as they were, pinned at a range bound, takes no settle delay.
C29_SettleIffAngleChanged ==
    (ev.op = "iterate" /\ ev.face # None /\ ev.fail = "none")
        => (ev.settle <=> \/ abs(current_pan - ev.pan0) > MOVED_EPS
                          \/ abs(current_tilt - ev.tilt0) > MOVED_EPS)

\* C30: a loop iteration that reaches the detector re-runs the grid scan if and only if
\* the detector returned nothing and the elapsed time since last_face_time exceeds
\* TIMEOUT_NO_FACE, whether the scan then completes or raises; an iteration with a
\* detection never reads the elapsed time and never scans.
C30_RescanIffNoFaceAndTimedOut ==
    (ev.op = "iterate" /\ ev.frames >= 1)
        => /\ ev.face # None => ~ev.scanned /\ ev.elapsed = -1 /\ ev.frames = 1
           /\ ev.face = None => ev.elapsed >= 0
           /\ ev.scanned <=> (ev.face = None /\ ev.elapsed > TIMEOUT_NO_FACE)

\* an iteration without a face exactly TIMEOUT_NO_FACE after the last one: no scan
C30_Witness ==
    /\ ev.op = "iterate"
    /\ ev.face = None
    /\ ev.fail = "none"
    /\ ev.elapsed = TIMEOUT_NO_FACE
    /\ ~ev.scanned
    /\ ev.cmds = << >>

\* the arguments of the calls named nm among the first n of cmds, in order
args_of(cmds, nm, n) ==
    LET sel == SelectSeq(SubSeq(cmds, 1, n), LAMBDA c : c[1] = nm)
    IN  [i \in 1..Len(sel) |-> sel[i][2]]

\* the actuator calls of a whole grid: one set_pan per waypoint, one set_tilt per row
GridCalls == NWay + NWay \div NPan

\* C21 as stated: the search that follows the loss of the face visits one waypoint per
\* iteration and, exhausted without a face, escalates to SWEEP.
C21_SearchStepsOneWaypoint ==
    (ev.op = "iterate" /\ ev.scanned /\ ev.fail = "none")
        => /\ count_cmd(ev.cmds, "set_pan") <= 1
           /\ (\A k \in Spots : scene[k] = None) => mode = "SWEEP"

\* C21 amended: there is no MICRO mode and no local grid.  The search that follows the
\* loss of the face is the grid scan of the first start, run whole inside one
\* iteration: its waypoints are the fixed grid (pan 30..150 by INIT_PAN_STEP within
\* each row, rows from tilt 150 down by INIT_TILT_STEP), wherever the face was last
\* seen.  A scan that ends without a face is a normal transition: nothing raises, the
\* mode is TRACK (not SWEEP), the dead-zone is kept, last_face_time is refreshed and
\* the loop goes on from the last waypoint.
C21_SearchIsWholeGridThenTrack ==
    (ev.op = "iterate" /\ ev.scanned /\ ev.fail = "none")
        => LET pans == args_of(ev.cmds, "set_pan", GridCalls)
               tilts == args_of(ev.cmds, "set_tilt", GridCalls)
           IN  /\ Len(pans) = NWay
               /\ \A k \in 1..NWay : pans[k] = Deg(30 + ((k - 1) % NPan) * INIT_PAN_STEP)
               /\ \A k \in 1..Len(tilts) : tilts[k] = Deg(150 - (k - 1) * INIT_TILT_STEP)
               /\ (\A k \in Spots : scene[k] = None)
                     => /\ mode = "TRACK"
                        /\ pc = IF ev.quit THEN "returned" ELSE "loop"
                        /\ Len(ev.cmds) = GridCalls
                        /\ <<dead_x, dead_y>> = ev.dead0
                        /\ last_face_time = now
                        /\ current_pan = pans[NWay]
                        /\ current_tilt = tilts[Len(tilts)]

\* a re-scan inside an iteration found no face and the loop goes on in TRACK
C21_Witness ==
    /\ ev.op = "iterate"
    /\ ev.scanned
    /\ ev.fail = "none"
    /\ \A k \in Spots : scene[k] = None
    /\ Len(ev.cmds) = GridCalls
    /\ mode = "TRACK"
    /\ pc = "loop"
    /\ frame_no = 1

C31_ScanVisitsFixedGrid ==
    ev.scanned
        => LET read == ev.frames - (IF ev.op = "iterate" THEN 1 ELSE 0)
           IN  /\ read <= 6 * 9
               /\ ev.fail = "none"
                     => /\ read = 6 * 9
                        /\ Len(args_of(ev.cmds, "set_pan", GridCalls)) = 6 * 9
                        /\ Len(args_of(ev.cmds, "set_tilt", GridCalls)) = 6
                        /\ Len(ev.cmds) \in {GridCalls, GridCalls + 2}

\* a scan that saw a face at its first and at its last waypoint still went over the
\* whole grid before it returned
C31_Witness ==
    /\ ev.scanned
    /\ ev.fail = "none"
    /\ scene[1] # None
    /\ scene[NWay] # None
    /\ ev.frames = 6 * 9
    /\ Len(ev.cmds) = GridCalls + 2

\* C34: the mode is INIT after construction and changes exactly once, to TRACK, in the
\* step in which run's first grid scan returns; no step sets it back to INIT, neither a
\* re-scan that completes nor one that raises part-way, and a first scan that raises
\* leaves INIT.
C34_ModeInitUntilFirstScanThenTrack ==
    /\ mode = "INIT"
    /\ [][/\ mode = "TRACK" => mode' = "TRACK"
          /\ mode' # mode
                => mode = "INIT" /\ ev'.op = "run" /\ ev'.scanned /\ ev'.fail = "none"
          /\ (ev'.scanned /\ ev'.fail = "none") => mode' = "TRACK"
          /\ ev'.op = "iterate" => mode = "TRACK"]_vars

\* a timeout-triggered re-scan raised among its waypoints and the mode is still TRACK
C34_Witness ==
    /\ ev.op = "iterate"
    /\ ev.scanned
    /\ ev.fail # "none"
    /\ ev.elapsed > TIMEOUT_NO_FACE
    /\ mode = "TRACK"
    /\ pc = "raised"

\* C35: the dead-zone test is a conjunction over the axes.  In an iteration with a face
\* whose offset is outside the dead-zone half-extent on at least one axis, _centre
\* issues set_pan and then set_tilt, both; an axis whose own offset is inside its
\* half-extent and not zero is written with an angle that differs from the current one
\* and lies toward its goal, and an axis with offset zero is written with the current
\* angle.
C35_EitherAxisOutsideMovesBoth ==
    (ev.op = "iterate" /\ ev.face # None /\ ev.fail = "none")
        => LET dx == face_cx(ev.face) - frame_w \div 2
               dy == face_cy(ev.face) - frame_h \div 2
           IN  (abs(dx) >= ev.dead0[1] \/ abs(dy) >= ev.dead0[2])
                  => /\ Len(ev.cmds) = 2
                     /\ ev.cmds[1][1] = "set_pan"
                     /\ ev.cmds[2][1] = "set_tilt"
                     /\ dx = 0 => ev.cmds[1][2] = ev.pan0
                     /\ dy = 0 => ev.cmds[2][2] = ev.tilt0
                     /\ dx # 0 => /\ ev.cmds[1][2] # ev.pan0
                                  /\ between(ev.cmds[1][2], ev.pan0, ev.pan0 - dx * deg_px_x)
                     /\ dy # 0 => /\ ev.cmds[2][2] # ev.tilt0
                                  /\ between(ev.cmds[2][2], ev.tilt0, ev.tilt0 - dy * deg_px_y)

\* a face 10 px right of the centre, inside the horizontal half-extent, and 64 px below
\* it, outside the vertical one: the pan was written too, and moved
C35_Witness ==
    /\ ev.op = "iterate"
    /\ ev.face = <<63, 70, 44, 44>>
    /\ ev.fail = "none"
    /\ abs(face_cx(ev.face) - frame_w \div 2) < ev.dead0[1]
    /\ abs(face_cy(ev.face) - frame_h \div 2) >= ev.dead0[2]
    /\ count_cmd(ev.cmds, "set_pan") = 1
    /\ current_pan < ev.pan0

\* C36: a grid scan that finds no face, the first one or one started by the timeout,
\* leaves the dead-zone as it was before the scan (the default, or what an earlier scan
\* calibrated), issues no call after the grid so that the actuator stays at the last
\* waypoint (pan 150, tilt 100), and still sets mode = TRACK and last_face_time = now.
C36_EmptyScanKeepsDeadZoneAndLastWaypoint ==
    (ev.scanned /\ ev.fail = "none" /\ \A k \in Spots : scene[k] = None)
        => /\ <<dead_x, dead_y>> = ev.dead0
           /\ ev.op = "run" => ev.dead0 = <<default_dead, default_dead>>
           /\ Len(ev.cmds) = GridCalls
           /\ ev.cmds[GridCalls] = <<"set_pan", Deg(150)>>
           /\ current_pan = Deg(150)
           /\ current_tilt = Deg(100)
           /\ mode = "TRACK"
           /\ last_face_time = now

\* a re-scan found nothing after the first scan had calibrated the dead-zone: the
\* calibrated values are still there and the head is at the last waypoint
C36_Witness ==
    /\ ev.op = "iterate"
    /\ ev.scanned
    /\ ev.fail = "none"
    /\ \A k \in Spots : scene[k] = None
    /\ ev.dead0 # <<default_dead, default_dead>>
    /\ dead_x = ev.dead0[1]
    /\ current_pan = Deg(150)
    /\ current_tilt = Deg(100)
    /\ last_face_time = now

C33_EmptyScansRecurSpaced ==
    /\ [](ev.scanned => last_face_time = now /\ mode = "TRACK")
    /\ [][(ev'.op = "iterate" /\ ev'.scanned)
            => /\ ev'.elapsed > TIMEOUT_NO_FACE
               /\ \E d \in TickDelays : ev'.elapsed = now + d - last_face_time
               /\ now - last_face_time <= TIMEOUT_NO_FACE]_vars
    /\ [][(ev'.op = "iterate" /\ ~ev'.scanned)
            => /\ ev'.elapsed <= TIMEOUT_NO_FACE
               /\ ev'.cmds = << >>
               /\ last_face_time' = last_face_time]_vars
    /\ []<><<IterateEmptyRescan>>_vars

\* a re-scan that started 31 s after the end of the scan before it, which was itself a
\* re-scan: the iterations in between held the head still for 30 s
C33_Witness ==
    /\ ev.op = "iterate"
    /\ ev.scanned
    /\ ev.elapsed = TIMEOUT_NO_FACE + 1
    /\ frame_no = 0
    /\ now = 0
    /\ last_face_time = 0

\* C32: with the default 1000-2000 microsecond pulse range at 50 Hz, angle_to_duty
\* clamps its angle to [0, 180]: the duty is that of the clamped angle, so every angle
\* below 0 gives the duty of 0 (3276) and every angle above 180 the duty of 180 (6553);
\* it never decreases when the angle grows; and it is an integer within [0, 0xFFFF].
C32_DutyClampedMonotoneInRange ==
    duty # -1
        => LET f(a) == angle_to_duty(a, min_pulse_us_default, max_pulse_us_default, freq_default)
           IN  /\ duty \in 0..65535
               /\ duty = f(max(0, min(180 * 100, duty_angle)))
               /\ duty_angle <= 0 => duty = 3276
               /\ duty_angle >= 180 * 100 => duty = 6553
               /\ duty_angle = 90 * 100 => duty = 4915
               /\ \A b \in DutyAngles : b <= duty_angle => f(b) <= duty

\* an angle below 0 was converted and gave the duty of angle 0
C32_Witness ==
    /\ duty_angle = -500
    /\ duty = 3276

\* C37: SharedState loses no wake-up.  With set() called from several threads and one
\* listener looping wait_for_change() then get(): whenever the listener is blocked in
\* changed.wait() while the stored pair differs from the pair it last read, a set() is
\* between its assignment and its changed.set(), which will wake it; a set() whose
\* pair equals the stored one changes neither the fields nor the flag; and once the
\* calls of set() have ended the listener has read the stored pair for good.
C37_NoLostWakeUp ==
    /\ []((/\ listener_order[listen_pc] = "wait"
           /\ ~ss_changed
           /\ seen # <<ss_emotion, ss_response>>)
              => \E s \in Setters : set_pc[s] = "signal")
    /\ [][\A s \in Setters :
            (set_pc[s] = "test" /\ set_pc'[s] # "test")
                => IF set_args[s] = <<ss_emotion, ss_response>>
                   THEN /\ set_pc'[s] = "release"
                        /\ UNCHANGED << ss_emotion, ss_response, ss_changed >>
                   ELSE set_pc'[s] = "assign"]_vars
    /\ <>[](seen = <<ss_emotion, ss_response>>)

\* the listener, woken by a first set(), read the pair of a second set() that stored
\* its pair between the listener's changed.clear() and its get(); the flag is set again
C37_Witness ==
    /\ set_calls >= 2
    /\ listener_order[listen_pc] = "wait"
    /\ ss_changed
    /\ seen = <<ss_emotion, ss_response>>
    /\ seen # initial_pair
    /\ \A s \in Setters : set_pc[s] = "idle" /\ set_args[s] # initial_pair
    /\ set_args["s1"] # set_args["s2"]

\* C39: every invocation of on_frame_wrapper by the tracker thread returns in the end:
\* a thread that waits in future.result() leaves it.
C39_EveryWrapperCallReturns == (wrap_pc = "waiting") ~> (wrap_pc = "idle")

====
